---- MODULE Spec2Model ----
(***************************************************************************)
(* Transfer engine of the St. Jude Cloud data transfer application.        *)
(*                                                                         *)
(* One transfer of one file is modelled at a time, in one of the four      *)
(* realizations the sources hold:                                          *)
(*   "cli"  - uploadFile of the command-line backend (dx upload, dx tag)   *)
(*            with the polling reconciler watchRemoteFile;                 *)
(*   "xfer" - the class UploadTransfer of the API backend (multipart PUT); *)
(*   "dl"   - downloadFile of the API backend;                             *)
(*   "dxdl" - downloadDxFile of the command-line backend (fs.watchFile).   *)
(* Every step is one callback / one continuation of an async function, as  *)
(* the single-threaded event loop runs it.                                 *)
(* A download can follow the upload of "xfer" and fetch the object it       *)
(* closed. SpecPlan follows the byte plan of prepare() on its own, and      *)
(* SpecStore the file list of the store with cancelCheckedFiles.           *)
(***************************************************************************)
EXTENDS Integers, Sequences, FiniteSets, TLC

\* ---------------------------------------------------------------- bounds
MaxSize == 3        \* largest file size (bytes) explored
MaxPartSize == 2    \* largest remote-declared maximumPartSize explored
MaxPolls == 3       \* describe polls / watch ticks explored per transfer
MaxSampledParts == 2 \* most parts in one describe result
MaxPlanSize == 12   \* largest file size planned on its own
MaxPlanPart == 6    \* largest maximumPartSize planned on its own
MaxStatus == 1      \* largest progress value a file of the store reaches

VARIABLES
  realization,      \* which of the four transfer functions was called
  pc,               \* where the transfer's chain of callbacks stands
  size,             \* file.raw_size / this.size / fileRawSize
  trace,            \* every externally visible event so far, in order
  file,             \* the SJDTAFile fields the backend and the store write
  intervalActive,   \* sizeCheckerInterval set and not cleared
  describePending,  \* a describeDXItem callback is outstanding
  polls,            \* timer ticks that issued a describe / a stat
  ranges,           \* the byte plan of UploadTransfer.start
  i,                \* loop variable of UploadTransfer.start
  bytesRead,        \* UploadTransfer.bytesRead
  bytesWritten,     \* req.connection.bytesWritten of the request in flight
  abortThrew,       \* UploadTransfer.abort ended in a TypeError
  localSize,        \* bytes in the local destination file (downloads)
  watchedSize,      \* size the fs.watchFile poller saw last
  statPending,      \* fs.stat callbacks outstanding
  content,          \* the bytes of the local source file of an upload
  maxPart,          \* maximumPartSize the project declared to prepare()
  remoteParts,      \* part index -> what the remote holds for that part
  object,           \* the bytes of the closed remote object
  files,            \* tool[currPath]: the file list of the store
  currPath,         \* state.currPath: 'upload' or 'download'
  queue,            \* the files whose task waits in backend.queue
  running,          \* the files whose transfer was started and has not ended
  processes,        \* operationUpload/DownloadProcesses: key -> handle
  signalled,        \* the running transfers abort / killProcess / cancel was called on
  lastOp,           \* what the last operation was, if a cancel or a rejection
  searchTerm,       \* state.searchTerm of the store
  shown,            \* what the currFiles getter returned last
  projects,         \* the projects of the platform, as the user sees them
  allProjects,      \* the flag listProjects is called with
  apiResult,        \* what listProjects of the API backend called back with
  cliResult,        \* what listProjects of the dx backend called back with
  platform,         \* os.platform()
  routed,           \* the routes the callback of getState was called with
  uncaught,         \* the exception that left the code, if one did
  command,          \* what the child process of runCommand ends with, and the flag
  cmdCallbacks,     \* the calls of the callback given to runCommand
  request,          \* one call of a function of the API backend: its arguments
  clientCallbacks,  \* the calls of the callback given to that function
  toolkit,          \* the Ubuntu version found and the hash of what the download delivers
  downloaded,       \* the chunks of the toolkit written to the download path
  installProgress,  \* the percentages updateProgress was called with
  installCallbacks, \* the calls of the callback given to installDxToolkit
  appReady,         \* app.isReady()
  mainWindow,       \* the mainWindow of the main process
  startupOptions,   \* what an open-url before 'ready' left for the ready handler
  uriCommand,       \* the uriCommand the open-url handler assigns (a global)
  pendingWindows,   \* the callbacks of the ui.createWindow calls not yet answered
  executed,         \* the URI commands given to executeJavaScript
  openUrls,         \* the urls of the open-url events so far
  tourInitialized,  \* tour.js: the tour was started
  userPrompted,     \* tour.js: __promptUser has set up its polling
  waitingForTools,  \* tour.js: the polling intervals that were set and not cleared
  numTries,         \* the tries of the polling that found no tools
  toolsLoaded,      \* $store.getters.tools.length > 0
  promptTimeout,    \* tour.__promptTimeout: unset, armed, cleared or fired
  tourState,        \* the tour: off, running or ended
  autoStarts        \* how often a prompt has started the tour

vars == <<realization, pc, size, trace, file, intervalActive, describePending,
          polls, ranges, i, bytesRead, bytesWritten, abortThrew, localSize,
          watchedSize, statPending, content, maxPart, remoteParts, object,
          files, currPath, queue, running, processes, signalled, lastOp,
          searchTerm, shown, projects, allProjects, apiResult, cliResult,
          platform, routed, uncaught, command, cmdCallbacks,
          request, clientCallbacks,
          toolkit, downloaded, installProgress, installCallbacks,
          appReady, mainWindow, startupOptions, uriCommand, pendingWindows,
          executed, openUrls,
          tourInitialized, userPrompted, waitingForTools, numTries, toolsLoaded,
          promptTimeout, tourState, autoStarts>>

tourVars == <<tourInitialized, userPrompted, waitingForTools, numTries, toolsLoaded,
              promptTimeout, tourState, autoStarts>>
startVars == <<platform, routed, uncaught>>
cmdVars == <<command, cmdCallbacks>>
clientVars == <<request, clientCallbacks>>
installVars == <<toolkit, downloaded, installProgress, installCallbacks>>
mainVars == <<appReady, mainWindow, startupOptions, uriCommand, pendingWindows,
              executed, openUrls>>
auxVars == <<startVars, cmdVars, clientVars, installVars, mainVars, tourVars>>

viewVars == <<searchTerm, shown>>
projectVars == <<projects, allProjects, apiResult, cliResult>>
byteVars == <<content, maxPart, remoteParts, object>>
storeVars == <<files, currPath, queue, running, processes, signalled, lastOp>>

cliVars == <<file, intervalActive, describePending, polls>>
xferVars == <<ranges, i, bytesRead, bytesWritten, abortThrew>>
dlVars == <<localSize, watchedSize, statPending>>

\* ------------------------------------------------------- numbers of JS
\* A JavaScript number x / y * 100 kept exact: n / d with d >= 0.
\* d = 0 stands for the IEEE results of a division by zero:
\* n > 0 is Infinity, n < 0 is -Infinity, n = 0 is NaN.
Percent(bytes, total) == [n |-> bytes * 100, d |-> total]

IsNaN(p) == p.d = 0 /\ p.n = 0

Sign(x) == IF x > 0 THEN 1 ELSE IF x < 0 THEN -1 ELSE 0

\* JavaScript a < b
Lower(a, b) ==
  IF IsNaN(a) \/ IsNaN(b) THEN FALSE
  ELSE IF a.d = 0 /\ b.d = 0 THEN Sign(a.n) < Sign(b.n)
  ELSE a.n * b.d < b.n * a.d

\* Math.round(bytes / total * 100.0) for total > 0
RoundPercent(bytes, total) == (200 * bytes + total) \div (2 * total)

\* ---------------------------------------------------------------- trace
Ev(e, op, n, d) == [e |-> e, op |-> op, n |-> n, d |-> d]
ProgressEv(p) == Ev("progress", "", p.n, p.d)
FinishedEv(err) == Ev("finished", err, 0, 0)
CallEv(op, idx) == Ev("call", op, idx, 0)
RetEv(op, idx) == Ev("ret", op, idx, 0)

Range(s) == {s[k] : k \in DOMAIN s}
Positions(e) == {k \in 1..Len(trace) : trace[k].e = e}
PositionsOf(e, op) == {k \in 1..Len(trace) : trace[k].e = e /\ trace[k].op = op}

RECURSIVE SumSeq(_)
SumSeq(s) == IF s = <<>> THEN 0 ELSE Head(s) + SumSeq(Tail(s))

Max(a, b) == IF a >= b THEN a ELSE b
Min(a, b) == IF a <= b THEN a ELSE b

\* --------------------------------------------------- inputs of the model
Sizes == 0..MaxSize
PartSizes == 1..MaxPartSize
\* The contents of a file of n bytes that are followed: one whose bytes all
\* differ, so that a byte out of place shows, and one whose bytes are equal.
Contents(n) == {[k \in 1..n |-> k], [k \in 1..n |-> 0]}

\* What `dx describe --json` can hand to the callback of describeDXItem:
\* nothing (the command failed), an object without parts, or an object
\* whose parts (none yet, or some) have committed sizes within the file size.
DescribeResults ==
  {[kind |-> "none", parts |-> <<>>], [kind |-> "noparts", parts |-> <<>>]}
  \cup {[kind |-> "parts", parts |-> ps] :
          ps \in {q \in UNION {[1..k -> 0..size] : k \in 0..MaxSampledParts} : SumSeq(q) <= size}}

\* ------------------------------------------------------------------ Init
\* The file of a transfer before it starts. largestReportedProgress is
\* unset until uploadFile assigns it. cancelledAt and killed record, for a
\* command-line upload, the phase in which cancelCheckedFiles took the file
\* and the process it called killProcess on.
NewTransferFile ==
  [largestReportedProgress |-> 0, sizeCheckingLock |-> FALSE,
   cancelled |-> FALSE, cancelledAt |-> "", killed |-> ""]

\* No listing was asked for.
NoResult == [err |-> "none", results |-> <<>>]

\* searchTerm: '' in the state of the store; nothing listed, nothing shown.
InitViewIdle ==
  /\ searchTerm = <<>>
  /\ shown = <<>>
  /\ projects = <<>>
  /\ allProjects = FALSE
  /\ apiResult = NoResult
  /\ cliResult = NoResult

\* getState was not called.
InitStartIdle ==
  /\ platform = "linux"
  /\ routed = <<>>
  /\ uncaught = ""

\* The outcome of a child process: exec's error, its two outputs, and
\* the raiseOnStderr argument of the call. stdout is a text of pieces.
Outcome(err, stdout, stderr, raise) ==
  [err |-> err, stdout |-> stdout, stderr |-> stderr, raiseOnStderr |-> raise]

\* runCommand was not called.
InitCmdIdle ==
  /\ command = Outcome("null", <<>>, "", TRUE)
  /\ cmdCallbacks = <<>>

\* The arguments of a call: the function, the token, the identifier
\* (dxId or projectId) and whether the callback throws when it is called.
Request(fn, token, id, throws) ==
  [fn |-> fn, token |-> token, id |-> id, callbackThrows |-> throws]

\* No function of the API backend was called.
InitClientIdle ==
  /\ request = Request("", "", "", FALSE)
  /\ clientCallbacks = <<>>

\* installDxToolkit was not called.
InitInstallIdle ==
  /\ toolkit = [ubuntu |-> "null", hash |-> "expected"]
  /\ downloaded = 0
  /\ installProgress = <<>>
  /\ installCallbacks = <<>>

\* The main process as its module leaves it: not ready, no window, no
\* startup options, no event.
InitMainIdle ==
  /\ appReady = FALSE
  /\ mainWindow = "undefined"
  /\ startupOptions = [open_url_event_occurred |-> FALSE, open_url_url |-> 0]
  /\ uriCommand = <<>>
  /\ pendingWindows = <<>>
  /\ executed = <<>>
  /\ openUrls = <<>>

\* The tour module as it is loaded.
InitTourIdle ==
  /\ tourInitialized = FALSE
  /\ userPrompted = FALSE
  /\ waitingForTools = 0
  /\ numTries = 0
  /\ toolsLoaded = FALSE
  /\ promptTimeout = "unset"
  /\ tourState = "off"
  /\ autoStarts = 0

InitAuxIdle ==
  /\ InitStartIdle /\ InitCmdIdle /\ InitClientIdle /\ InitInstallIdle
  /\ InitMainIdle /\ InitTourIdle

\* No file list is kept while a single transfer is followed.
InitStoreIdle ==
  /\ files = <<>>
  /\ currPath = "upload"
  /\ queue = {}
  /\ running = {}
  /\ processes = <<>>
  /\ signalled = {}
  /\ lastOp = ""

Init ==
  /\ realization \in {"cli", "xfer", "dl", "dxdl"}
  /\ pc = "idle"
  /\ size \in Sizes
  /\ trace = <<>>
  \* largestReportedProgress is unset until uploadFile assigns it
  /\ file = NewTransferFile
  /\ intervalActive = FALSE
  /\ describePending = FALSE
  /\ polls = 0
  /\ ranges = <<>>
  /\ i = 0
  /\ bytesRead = 0
  /\ bytesWritten = 0
  /\ abortThrew = FALSE
  /\ localSize = 0
  /\ watchedSize = 0
  /\ statPending = 0
  /\ content \in (IF realization = "xfer" THEN Contents(size) ELSE {<<>>})
  /\ object \in (IF realization = "dl" THEN Contents(size) ELSE {<<>>})
  /\ maxPart = 0
  /\ InitViewIdle
  /\ InitAuxIdle
  /\ remoteParts = <<>>
  /\ InitStoreIdle

\* =================================================== command-line upload
\* uploadFile, synchronous part: remove the old object (failure ignored),
\* reset the clamp value, start the reconciler, spawn `dx upload`.
UploadFileCli ==
  /\ realization = "cli" /\ pc = "idle"
  /\ file' = [file EXCEPT !.largestReportedProgress = -1]
  /\ intervalActive' = TRUE
  /\ trace' = trace \o <<CallEv("rm", 0), CallEv("dx upload", 0)>>
  /\ pc' = "uploading"
  /\ UNCHANGED <<auxVars, viewVars, projectVars, storeVars, byteVars, realization, size, describePending, polls, xferVars, dlVars>>

\* if (file.sizeCheckingLock) { return; }
LockTakenIgnored(f) == FALSE

LockTaken(f) == f.sizeCheckingLock

\* watchRemoteFile, the timer callback when the lock is taken: return.
TickLocked ==
  /\ realization = "cli" /\ intervalActive
  /\ LockTaken(file)
  /\ UNCHANGED vars

\* watchRemoteFile, the timer callback when the lock is free.
Tick ==
  /\ realization = "cli" /\ intervalActive
  /\ ~LockTaken(file)
  /\ polls < MaxPolls
  /\ file' = [file EXCEPT !.sizeCheckingLock = TRUE]
  /\ describePending' = TRUE
  /\ polls' = polls + 1
  /\ trace' = Append(trace, CallEv("describe", 0))
  /\ UNCHANGED <<auxVars, viewVars, projectVars, storeVars, byteVars, realization, pc, size, intervalActive, xferVars, dlVars>>

\* for (chunk in remoteFile.parts) if (size) remoteObjectSize += size
RemoteObjectSize(parts) == SumSeq(parts)

\* The clamp of watchRemoteFile: the value reported and the value kept.
ClampLargest(largest, remoteObjectSize) ==
  IF largest < remoteObjectSize
    THEN [reported |-> largest, largest |-> largest]
    ELSE [reported |-> remoteObjectSize, largest |-> remoteObjectSize]

\* (the lock released only past the early return)
AfterDescribeEarlyReturn(f, r) ==
  IF r.kind # "parts" THEN f ELSE [f EXCEPT !.sizeCheckingLock = FALSE]

\* The first statement of the describe callback, for every result:
\* file.sizeCheckingLock = false.
AfterDescribe(f, r) == [f EXCEPT !.sizeCheckingLock = FALSE]

\* watchRemoteFile, the describe callback.
DescribeDone ==
  /\ realization = "cli" /\ describePending
  /\ describePending' = FALSE
  /\ \E r \in DescribeResults :
       IF r.kind # "parts"
         THEN /\ file' = AfterDescribe(file, r)
              /\ trace' = Append(trace, RetEv("describe", -1))
         ELSE LET c == ClampLargest(file.largestReportedProgress,
                                    RemoteObjectSize(r.parts))
              IN /\ file' = [AfterDescribe(file, r) EXCEPT
                                !.largestReportedProgress = c.largest]
                 /\ trace' = trace \o
                      <<RetEv("describe", RemoteObjectSize(r.parts)),
                        ProgressEv(Percent(c.reported, size))>>
  /\ UNCHANGED <<auxVars, viewVars, projectVars, storeVars, byteVars, realization, pc, size, intervalActive, polls, xferVars, dlVars>>

\* The callback of `dx upload`.
UploadCmdExit ==
  /\ realization = "cli" /\ pc = "uploading"
  /\ \E err \in BOOLEAN :
       IF err
         THEN \* finishedCbWrapper(err, null)
              /\ intervalActive' = FALSE
              /\ trace' = trace \o <<RetEv("dx upload", -1), FinishedEv("upload error")>>
              /\ pc' = "done"
         ELSE /\ trace' = trace \o <<RetEv("dx upload", 0), CallEv("dx tag", 0)>>
              /\ pc' = "tagging"
              /\ UNCHANGED intervalActive
  /\ UNCHANGED <<auxVars, viewVars, projectVars, storeVars, byteVars, realization, size, file, describePending, polls, xferVars, dlVars>>

\* The callback of `dx tag`:
\*   if (err) { finishedCbWrapper(err, null); }  finishedCbWrapper(null, stdout);
TagCmdExit ==
  /\ realization = "cli" /\ pc = "tagging"
  /\ intervalActive' = FALSE
  /\ \E err \in BOOLEAN :
       trace' = trace
                \o (IF err THEN <<RetEv("dx tag", -1), FinishedEv("tag error")>>
                           ELSE <<RetEv("dx tag", 0)>>)
                \o <<FinishedEv("null")>>
  /\ pc' = "done"
  /\ UNCHANGED <<auxVars, viewVars, projectVars, storeVars, byteVars, realization, size, file, describePending, polls, xferVars, dlVars>>

\* cancelCheckedFiles on the upload path for the file in transfer (checked,
\* started, not finished, which it is until the tag command has returned):
\* mark it, look the process up - the ChildProcess of `dx upload` that
\* uploadFile returned, which has no abort() - and killProcess(p.pid).
\* The tag command is a process of its own and is not reached by the kill.
\* (A repeated cancel does the same again and is left out.)
CancelCli ==
  /\ realization = "cli"
  /\ pc \in {"uploading", "tagging"}
  /\ ~file.cancelled
  /\ file' = [file EXCEPT !.cancelled = TRUE, !.cancelledAt = pc,
                          !.killed = "dx upload"]
  /\ UNCHANGED <<auxVars, viewVars, projectVars, storeVars, byteVars, realization, pc, size, trace,
                 intervalActive, describePending, polls, xferVars, dlVars>>

NextCli ==
  UploadFileCli \/ TickLocked \/ Tick \/ DescribeDone \/ UploadCmdExit
  \/ TagCmdExit \/ CancelCli

\* ============================================================ API upload
\* utils.byteRanges(size, maximumPartSize): inclusive ranges of at most
\* chunk bytes, in order, covering [0, size); no range for an empty file.
RECURSIVE ByteRangesFrom(_, _, _)
ByteRangesFrom(start, total, chunk) ==
  IF start >= total THEN <<>>
  ELSE <<[start |-> start, end |-> Min(start + chunk, total) - 1]>>
       \o ByteRangesFrom(start + chunk, total, chunk)

byteRangesFromOne(total, chunk) == ByteRangesFrom(1, total, chunk)

byteRanges(total, chunk) == ByteRangesFrom(0, total, chunk)

\* const size = end - start + 1
RangeSizeExclusive(r) == r.end - r.start

RangeSize(r) == r.end - r.start + 1

\* transfer(id, i + 1, start, end): the index sent for the range at
\* position k (0-based) of the plan
PartIndexZeroBased(k) == k

PartIndex(k) == k + 1

\* this.bytesRead += size, in the callback of an acknowledged PUT
BytesReadAfterLost(read, r) == read

BytesReadAfterEnd(read, r) == read + r.end + 1

BytesReadAfter(read, r) == read + RangeSize(r)

\* fs.createReadStream(this.src, {start, end}): both offsets inclusive.
ReadRangeExclusive(bytes, r) == SubSeq(bytes, r.start + 1, r.end)

ReadRange(bytes, r) == SubSeq(bytes, r.start + 1, r.end + 1)

\* A digest of a byte sequence: length and every byte enter it.
RECURSIVE Digest(_)
Digest(bytes) == IF bytes = <<>> THEN 1 ELSE 2 * Digest(Tail(bytes)) + Head(bytes)

\* utils.md5Sum(path, start, end): the digest of bytes start..end of the file
md5Sum(bytes, start, end) == Digest(SubSeq(bytes, start + 1, end + 1))

\* const md5 = await utils.md5Sum(this.src, start, end)
TransferDigestWholeFile(bytes, r) == md5Sum(bytes, 0, Len(bytes) - 1)

TransferDigest(bytes, r) == md5Sum(bytes, r.start, r.end)

\* client.file.upload(id, {index, md5, size}) declares a part to the remote.
Declared(idx, bytes, r) ==
  [x \in DOMAIN remoteParts \cup {idx} |->
     IF x = idx THEN [md5 |-> TransferDigest(bytes, r), size |-> RangeSize(r),
                      data |-> <<>>, stored |-> FALSE]
     ELSE remoteParts[x]]

\* The remote acknowledged the PUT of a part: it holds the body sent.
Stored(idx, body) ==
  [x \in DOMAIN remoteParts |->
     IF x = idx THEN [remoteParts[x] EXCEPT !.data = body, !.stored = TRUE]
     ELSE remoteParts[x]]

\* The remote closes an object: its parts in the order of their indices.
RECURSIVE Assemble(_)
Assemble(parts) ==
  IF DOMAIN parts = {} THEN <<>>
  ELSE LET m == CHOOSE x \in DOMAIN parts : \A y \in DOMAIN parts : x <= y
       IN parts[m].data \o Assemble([x \in DOMAIN parts \ {m} |-> parts[x]])

\* An awaited call of start() or transfer() rejected: the promise that
\* start() returned rejects, and uploadFile attached no handler to it.
Rejected(op) ==
  /\ trace' = Append(trace, RetEv(op, -1))
  /\ pc' = "rejected"

\* (the loop head with `i + 1 < ranges.length` for its test)
LoopHeadOffByOne(k, evs) ==
  /\ i' = k
  /\ IF k + 1 < Len(ranges)
       THEN /\ trace' = trace \o evs \o <<CallEv("md5Sum", PartIndex(k))>>
            /\ pc' = "md5"
       ELSE /\ trace' = trace \o evs \o <<CallEv("file.close", 0)>>
            /\ pc' = "close"

\* The head of `for (let i = 0; i < ranges.length; i++)` with i = k, run
\* after the events evs: the next transfer() up to its first await
\* (createReadStream, md5Sum), or past the loop, client.file.close(id).
LoopHead(k, evs) ==
  /\ i' = k
  /\ IF k < Len(ranges)
       THEN /\ trace' = trace \o evs \o <<CallEv("md5Sum", PartIndex(k))>>
            /\ pc' = "md5"
       ELSE /\ trace' = trace \o evs \o <<CallEv("file.close", 0)>>
            /\ pc' = "close"

\* uploadFile: new UploadTransfer(...), then start() up to its first
\* await: prepare() -> fileUploadParameters -> client.project.describe.
UploadFileXfer ==
  /\ realization = "xfer" /\ pc = "idle"
  /\ trace' = Append(trace, CallEv("project.describe", 0))
  /\ pc' = "prepare"
  /\ UNCHANGED <<auxVars, viewVars, projectVars, storeVars, byteVars, realization, size, cliVars, xferVars, dlVars>>

\* (start() going on to client.file.new without a plan)
PrepareFailedCreates ==
  /\ \E op \in {"project.describe", "fileUploadParameters"} :
       trace' = trace \o <<RetEv(op, -1), CallEv("file.new", 0)>>
  /\ pc' = "new"
  /\ UNCHANGED <<ranges, maxPart>>

\* The await of prepare() in start() rejects: client.project.describe
\* rejected, or fileUploadParameters threw 'missing file upload parameters'.
PrepareFailed ==
  /\ \E op \in {"project.describe", "fileUploadParameters"} : Rejected(op)
  /\ UNCHANGED <<ranges, maxPart>>

\* prepare(): describe rejected, or no fileUploadParameters (throw), or
\* the plan is made and client.file.new is called.
PrepareDone ==
  /\ realization = "xfer" /\ pc = "prepare"
  /\ \/ PrepareFailed
     \/ \E maximumPartSize \in PartSizes :
          /\ ranges' = byteRanges(size, maximumPartSize)
          /\ maxPart' = maximumPartSize
          /\ trace' = trace \o <<RetEv("project.describe", maximumPartSize),
                                 CallEv("file.new", 0)>>
          /\ pc' = "new"
  /\ UNCHANGED <<auxVars, viewVars, projectVars, storeVars, content, remoteParts, object, realization, size,
                 cliVars, i, bytesRead, bytesWritten, abortThrew, dlVars>>

\* client.file.new returned or rejected.
NewDone ==
  /\ realization = "xfer" /\ pc = "new"
  /\ \/ Rejected("file.new") /\ UNCHANGED i
     \/ LoopHead(0, <<RetEv("file.new", 0)>>)
  /\ UNCHANGED <<auxVars, viewVars, projectVars, storeVars, byteVars, realization, size, cliVars, ranges, bytesRead, bytesWritten,
                 abortThrew, dlVars>>

\* utils.md5Sum returned or rejected; then client.file.upload(id, {index}).
Md5Done ==
  /\ realization = "xfer" /\ pc = "md5"
  /\ \/ Rejected("md5Sum") /\ UNCHANGED remoteParts
     \/ /\ trace' = trace \o <<RetEv("md5Sum", PartIndex(i)),
                               CallEv("file.upload", PartIndex(i))>>
        /\ remoteParts' = Declared(PartIndex(i), content, ranges[i + 1])
        /\ pc' = "url"
  /\ UNCHANGED <<auxVars, viewVars, projectVars, storeVars, content, maxPart, object, realization, size,
                 cliVars, xferVars, dlVars>>

\* client.file.upload returned or rejected; then this.request = request(PUT).
UrlDone ==
  /\ realization = "xfer" /\ pc = "url"
  /\ \/ Rejected("file.upload") /\ UNCHANGED bytesWritten
     \/ /\ trace' = trace \o <<RetEv("file.upload", PartIndex(i)),
                               Ev("call", "PUT", PartIndex(i), ranges[i + 1].start)>>
        /\ bytesWritten' = 0
        /\ pc' = "put"
  /\ UNCHANGED <<auxVars, viewVars, projectVars, storeVars, byteVars, realization, size, cliVars, ranges, i, bytesRead, abortThrew,
                 dlVars>>

\* this.request.on('drain'): the socket flushed more of the part's body.
Drain ==
  /\ realization = "xfer" /\ pc = "put"
  /\ \E w \in (bytesWritten + 1)..RangeSize(ranges[i + 1]) :
       /\ bytesWritten' = w
       /\ trace' = Append(trace, ProgressEv(Percent(bytesRead + w, size)))
  /\ UNCHANGED <<auxVars, viewVars, projectVars, storeVars, byteVars, realization, pc, size, cliVars, ranges, i, bytesRead,
                 abortThrew, dlVars>>

\* if (error) { this.finishedCb(error, null); }: neither resolve() nor a
\* retry, the promise of transfer() stays pending.
PutFailedResolves ==
  /\ LoopHead(i + 1, <<RetEv("PUT", -1), FinishedEv("put error")>>)
  /\ UNCHANGED <<bytesRead, remoteParts>>

PutFailed ==
  /\ trace' = trace \o <<RetEv("PUT", -1), FinishedEv("put error")>>
  /\ pc' = "hung"
  /\ UNCHANGED <<i, bytesRead, remoteParts>>

\* The callback of the PUT request: on an error finishedCb(error, null)
\* and the promise of transfer() stays pending; otherwise bytesRead += size
\* and resolve(), which resumes the loop of start().
PutDone ==
  /\ realization = "xfer" /\ pc = "put"
  /\ \/ PutFailed
     \/ /\ bytesRead' = BytesReadAfter(bytesRead, ranges[i + 1])
        /\ remoteParts' = Stored(PartIndex(i), ReadRange(content, ranges[i + 1]))
        /\ LoopHead(i + 1, <<RetEv("PUT", PartIndex(i))>>)
  /\ UNCHANGED <<auxVars, viewVars, projectVars, storeVars, content, maxPart, object, realization, size,
                 cliVars, ranges, bytesWritten, abortThrew, dlVars>>

\* client.file.close returned or rejected; then this.finishedCb(null, {}).
CloseDone ==
  /\ realization = "xfer" /\ pc = "close"
  /\ \/ Rejected("file.close") /\ UNCHANGED object
     \/ /\ trace' = trace \o <<RetEv("file.close", 0), FinishedEv("null")>>
        /\ object' = Assemble(remoteParts)
        /\ pc' = "done"
  /\ UNCHANGED <<auxVars, viewVars, projectVars, storeVars, content, maxPart, remoteParts, realization, size,
                 cliVars, xferVars, dlVars>>

\* UploadTransfer.abort(): `request` is the imported module, not
\* this.request; the module has no abort(), so the call throws a TypeError
\* and the request in flight is left alone.
Abort ==
  /\ abortThrew' = TRUE
  /\ UNCHANGED <<pc, bytesWritten>>

\* cancelCheckedFiles on the upload path for the file in transfer (checked,
\* started, not finished): mark it, look the process up, p.abort().
\* (A repeated cancel does the same again and is left out.)
CancelUpload ==
  /\ realization = "xfer"
  /\ pc \notin {"idle", "done"}
  /\ ~file.cancelled
  /\ file' = [file EXCEPT !.cancelled = TRUE]
  /\ trace' = Append(trace, Ev("cancel", "", 0, 0))
  /\ Abort
  /\ UNCHANGED <<auxVars, viewVars, projectVars, storeVars, byteVars, realization, size, intervalActive, describePending, polls,
                 ranges, i, bytesRead, dlVars>>

NextXfer ==
  UploadFileXfer \/ PrepareDone \/ NewDone \/ Md5Done \/ UrlDone \/ Drain
  \/ PutDone \/ CloseDone \/ CancelUpload

\* ========================================================== API download
\* downloadFile: fs.createWriteStream(localFilePath), then
\* client.file.download(fileId).
\* The file downloaded is an object of the remote, or the object an
\* UploadTransfer has just closed (a transfer of its own: the log restarts).
DownloadFileCall ==
  /\ \/ realization = "dl" /\ pc = "idle"
     \/ realization = "xfer" /\ pc = "done"
  /\ realization' = "dl"
  /\ localSize' = 0
  /\ trace' = <<CallEv("createWriteStream", 0), CallEv("file.download", 0)>>
  /\ pc' = "dl-url"
  /\ UNCHANGED <<auxVars, viewVars, projectVars, storeVars, byteVars, size, cliVars, xferVars, watchedSize,
                 statPending>>

\* client.file.download rejected (.catch: finishedCb(err, null)) or
\* returned the url: request(url, ...), req.pipe(writer).
DownloadUrlDone ==
  /\ realization = "dl" /\ pc = "dl-url"
  /\ \/ /\ trace' = trace \o <<RetEv("file.download", -1), FinishedEv("download error")>>
        /\ pc' = "done"
     \/ /\ trace' = trace \o <<RetEv("file.download", 0), CallEv("GET", 0)>>
        /\ pc' = "streaming"
  /\ UNCHANGED <<auxVars, viewVars, projectVars, storeVars, byteVars, realization, size, cliVars, xferVars, dlVars>>

\* progress(req).on('progress'): updateCb(state.percent * 100), where
\* state.percent is bytes received / bytes expected.
DownloadProgress ==
  /\ realization = "dl" /\ pc = "streaming"
  /\ \E got \in (localSize + 1)..size :
       /\ localSize' = got
       /\ trace' = Append(trace, ProgressEv(Percent(got, size)))
  /\ UNCHANGED <<auxVars, viewVars, projectVars, storeVars, byteVars, realization, pc, size, cliVars, xferVars, watchedSize, statPending>>

\* The callback of the GET request.
DownloadDone ==
  /\ realization = "dl" /\ pc = "streaming"
  /\ \E error \in BOOLEAN :
       trace' = trace \o (IF error THEN <<RetEv("GET", -1), FinishedEv("request error")>>
                                   ELSE <<RetEv("GET", 0), FinishedEv("null")>>)
  /\ pc' = "done"
  /\ UNCHANGED <<auxVars, viewVars, projectVars, storeVars, byteVars, realization, size, cliVars, xferVars, dlVars>>

\* The caller aborts the returned request while it is in flight:
\* req.on('abort'): finishedCb(new Error(...), null). An aborted request
\* does not run its callback.
DownloadAbort ==
  /\ realization = "dl" /\ pc = "streaming"
  /\ trace' = trace \o <<Ev("cancel", "", 0, 0), FinishedEv("aborted")>>
  /\ pc' = "done"
  /\ UNCHANGED <<auxVars, viewVars, projectVars, storeVars, byteVars, realization, size, cliVars, xferVars, dlVars>>

\* fs.createWriteStream returns at once and opens the file on the thread
\* pool: the file exists from the 'open' event on, which comes at any later
\* turn of the event loop. When the open fails the stream emits 'error',
\* for which downloadFile has no listener: the process ends on the uncaught
\* error, or (a handler of the application swallowing it) goes on.
WriterOpened ==
  \E k \in PositionsOf("ret", "createWriteStream") : trace[k].n = 0

WriterOpen ==
  /\ realization = "dl" /\ pc # "crashed"
  /\ PositionsOf("call", "createWriteStream") # {}
  /\ PositionsOf("ret", "createWriteStream") = {}
  /\ \/ /\ trace' = Append(trace, RetEv("createWriteStream", 0))
        /\ UNCHANGED pc
     \/ /\ trace' = Append(trace, RetEv("createWriteStream", -1))
        /\ pc' \in {pc, "crashed"}
  /\ UNCHANGED <<auxVars, viewVars, projectVars, storeVars, byteVars, realization, size, cliVars, xferVars, dlVars>>

\* req.pipe(writer): the writer puts the rest of a complete response into
\* the local file, which can be after the callback of the request ran.
WriterFinish ==
  /\ realization = "dl" /\ pc = "done"
  /\ FinishedEv("null") \in Range(trace)
  /\ WriterOpened
  /\ localSize < size
  /\ localSize' = size
  /\ UNCHANGED <<auxVars, viewVars, projectVars, storeVars, byteVars, realization, pc, size, trace, cliVars,
                 xferVars, watchedSize, statPending>>

\* The local destination file: the bytes of the response written so far
\* (localSize counts the bytes handed to the writer, which keeps them until
\* the file is open); no file when the writer could not open it.
LocalFile == IF WriterOpened THEN SubSeq(object, 1, localSize) ELSE <<>>

NextDl == DownloadFileCall \/ DownloadUrlDone \/ DownloadProgress \/ DownloadDone
          \/ DownloadAbort \/ WriterFinish \/ WriterOpen

\* ================================================= command-line download
\* Math.round(stats.size / fileRawSize * 100.0) as a number n / d
RoundedPercent(bytes, total) ==
  IF total = 0 THEN Percent(bytes, total)
  ELSE [n |-> RoundPercent(bytes, total), d |-> 1]

\* downloadDxFile: touch the output file, fs.watchFile(outputPath, ...),
\* runCommand(`dx download ...`, finishedCb).
DownloadDxFile ==
  /\ realization = "dxdl" /\ pc = "idle"
  /\ localSize' = 0
  /\ watchedSize' = 0
  /\ trace' = trace \o <<CallEv("touch", 0), CallEv("watchFile", 0),
                         CallEv("dx download", 0)>>
  /\ pc' = "downloading"
  /\ UNCHANGED <<auxVars, viewVars, projectVars, storeVars, byteVars, realization, size, cliVars, xferVars, statPending>>

\* The dx process appends to the output file.
DxWrite ==
  /\ realization = "dxdl" /\ pc = "downloading"
  /\ \E got \in (localSize + 1)..size : localSize' = got
  /\ UNCHANGED <<auxVars, viewVars, projectVars, storeVars, byteVars, realization, pc, size, trace, cliVars, xferVars, watchedSize,
                 statPending>>

\* The fs.watchFile poller sees that the file changed and runs the
\* listener: fs.stat(outputPath, cb). Nothing ever unwatches the file.
WatchFire ==
  /\ realization = "dxdl" /\ pc # "idle"
  /\ localSize # watchedSize
  /\ polls < MaxPolls
  /\ watchedSize' = localSize
  /\ statPending' = statPending + 1
  /\ polls' = polls + 1
  /\ trace' = Append(trace, CallEv("stat", 0))
  /\ UNCHANGED <<auxVars, viewVars, projectVars, storeVars, byteVars, realization, pc, size, file, intervalActive, describePending,
                 xferVars, localSize>>

\* The callback of fs.stat: if (stats !== undefined) updateCb(progress).
StatDone ==
  /\ realization = "dxdl" /\ statPending > 0
  /\ statPending' = statPending - 1
  /\ \E failed \in BOOLEAN :
       trace' = trace \o (IF failed THEN <<RetEv("stat", -1)>>
                          ELSE <<RetEv("stat", localSize),
                                 ProgressEv(RoundedPercent(localSize, size))>>)
  /\ UNCHANGED <<auxVars, viewVars, projectVars, storeVars, byteVars, realization, pc, size, cliVars, xferVars, localSize, watchedSize>>

\* The callback of `dx download`: finishedCb(err, stdout). A download
\* that succeeded wrote the whole file.
DxExit ==
  /\ realization = "dxdl" /\ pc = "downloading"
  /\ \E err \in BOOLEAN :
       /\ ~err => localSize = size
       /\ trace' = trace \o (IF err THEN <<RetEv("dx download", -1), FinishedEv("download error")>>
                                    ELSE <<RetEv("dx download", 0), FinishedEv("null")>>)
  /\ pc' = "done"
  /\ UNCHANGED <<auxVars, viewVars, projectVars, storeVars, byteVars, realization, size, cliVars, xferVars, dlVars>>

NextDxDl == DownloadDxFile \/ DxWrite \/ WatchFire \/ StatDone \/ DxExit

\* ================================================== the plan on its own
\* prepare() for a file size and a maximumPartSize, the transfer left out:
\* small sizes, and the sizes of the documented example.
ExamplePlanInput == [size |-> 100000, maxPart |-> 30000]

PlanInputs ==
  {[size |-> n, maxPart |-> m] : n \in 0..MaxPlanSize, m \in 1..MaxPlanPart}
  \cup {ExamplePlanInput}

InitPlan ==
  /\ realization = "plan"
  /\ pc = "idle"
  /\ \E in \in PlanInputs : size = in.size /\ maxPart = in.maxPart
  /\ trace = <<>>
  /\ file = NewTransferFile
  /\ intervalActive = FALSE /\ describePending = FALSE /\ polls = 0
  /\ ranges = <<>> /\ i = 0 /\ bytesRead = 0 /\ bytesWritten = 0
  /\ abortThrew = FALSE
  /\ localSize = 0 /\ watchedSize = 0 /\ statPending = 0
  /\ content = <<>> /\ object = <<>> /\ remoteParts = <<>>
  /\ InitStoreIdle
  /\ InitViewIdle
  /\ InitAuxIdle

\* return utils.byteRanges(this.size, maximumPartSize)
Prepare ==
  /\ realization = "plan" /\ pc = "idle"
  /\ ranges' = byteRanges(size, maxPart)
  /\ pc' = "planned"
  /\ UNCHANGED <<auxVars, viewVars, projectVars, storeVars, content, maxPart, remoteParts, object, realization,
                 size, trace, cliVars, i, bytesRead, bytesWritten, abortThrew,
                 dlVars>>

NextPlan == Prepare

SpecPlan == InitPlan /\ [][NextPlan]_vars

\* ============================================================ the store
\* The file list of the current tool and direction, the task queue and the
\* maps of transfer handles. The transfers themselves are left out: a task
\* is queued, started, makes progress and ends.
\* Two entries are followed: enough for a checked and an unchecked file, and
\* for two entries of one path.
FileIds == {1, 2}

\* fileInfoFromPath / addFiles: a file as it enters the list
NewFile(path, checked) ==
  [path |-> path, checked |-> checked, status |-> 0, waiting |-> FALSE,
   started |-> FALSE, finished |-> FALSE, errored |-> FALSE,
   cancelled |-> FALSE, progress |-> 0]

\* addFile pushes a file whatever the list holds: two entries can have the
\* same path (the key of the handle maps).
InitStore ==
  /\ realization = "store"
  /\ pc = "idle" /\ size = 0 /\ trace = <<>>
  /\ file = NewTransferFile
  /\ intervalActive = FALSE /\ describePending = FALSE /\ polls = 0
  /\ ranges = <<>> /\ i = 0 /\ bytesRead = 0 /\ bytesWritten = 0
  /\ abortThrew = FALSE
  /\ localSize = 0 /\ watchedSize = 0 /\ statPending = 0
  /\ content = <<>> /\ object = <<>> /\ remoteParts = <<>> /\ maxPart = 0
  /\ files \in {fs \in [FileIds -> {NewFile(p, c) : p \in FileIds, c \in BOOLEAN}] :
                  \A f \in FileIds : fs[f].path <= f}
  /\ currPath \in {"upload", "download"}
  /\ queue = {}
  /\ running = {}
  /\ processes = [p \in FileIds |-> 0]
  /\ signalled = {}
  /\ lastOp = ""
  /\ InitViewIdle
  /\ InitAuxIdle

noTransferVars == <<realization, pc, size, trace, cliVars, xferVars, dlVars, byteVars,
                    viewVars, projectVars, auxVars>>

\* A task for the same (path, location, direction) is queued or active.
DuplicateNever(f) == FALSE

Duplicate(f) == \E g \in queue \cup running : files[g].path = files[f].path

\* enqueue of a file not yet transferred: rejected with
\* DuplicateTransferError, or the task waits.
Enqueue(f) ==
  /\ realization = "store"
  /\ ~files[f].started /\ ~files[f].finished /\ ~files[f].errored
  /\ IF Duplicate(f)
       THEN /\ lastOp' = "DuplicateTransferError"
            /\ UNCHANGED <<files, queue>>
       ELSE /\ files' = [files EXCEPT ![f].waiting = TRUE]
            /\ queue' = queue \cup {f}
            /\ lastOp' = ""
  /\ UNCHANGED <<noTransferVars, currPath, running, processes, signalled>>

\* The queue runs a task: the transfer starts and its handle is kept under
\* the key of the file.
StartTask(f) ==
  /\ realization = "store"
  /\ f \in queue
  /\ queue' = queue \ {f}
  /\ running' = running \cup {f}
  /\ files' = [files EXCEPT ![f].waiting = FALSE, ![f].started = TRUE]
  /\ processes' = [processes EXCEPT ![files[f].path] = f]
  /\ lastOp' = ""
  /\ UNCHANGED <<noTransferVars, currPath, signalled>>

\* The progress callback of a transfer.
ProgressTask(f) ==
  /\ realization = "store"
  /\ f \in running
  /\ files[f].status < MaxStatus
  /\ files' = [files EXCEPT ![f].status = @ + 1,
                            ![f].progress = files[f].status + 1]
  /\ lastOp' = ""
  /\ UNCHANGED <<noTransferVars, currPath, queue, running, processes, signalled>>

\* The finished callback of a transfer, with or without an error.
FinishTask(f) ==
  /\ realization = "store"
  /\ f \in running
  /\ running' = running \ {f}
  /\ signalled' = signalled \ {f}
  /\ \E err \in BOOLEAN :
       files' = IF err THEN [files EXCEPT ![f].errored = TRUE]
                       ELSE [files EXCEPT ![f].finished = TRUE]
  /\ lastOp' = ""
  /\ UNCHANGED <<noTransferVars, currPath, queue, processes>>

\* (a reset that also writes the cancelled flag)
resetFileStatusClearsCancelled(f) ==
  /\ realization = "store"
  /\ f \notin queue \cup running
  /\ files[f].finished \/ files[f].errored \/ files[f].cancelled
  /\ files' = [files EXCEPT ![f] = NewFile(files[f].path, files[f].checked)]
  /\ lastOp' = ""
  /\ UNCHANGED <<noTransferVars, currPath, queue, running, processes, signalled>>

\* utils.resetFileStatus, on a file that is neither queued nor in transfer.
resetFileStatus(f) ==
  /\ realization = "store"
  /\ f \notin queue \cup running
  /\ files[f].finished \/ files[f].errored \/ files[f].cancelled
  /\ files' = [files EXCEPT ![f].status = 0, ![f].waiting = FALSE,
                            ![f].started = FALSE, ![f].finished = FALSE,
                            ![f].errored = FALSE]
  /\ lastOp' = ""
  /\ UNCHANGED <<noTransferVars, currPath, queue, running, processes, signalled>>

\* filesInTransfer: checked && started && !finished
InTransfer(fs) ==
  {f \in FileIds : fs[f].checked /\ fs[f].started /\ ~fs[f].finished}

\* The first loop of cancelCheckedFiles, on the flags.
MarkInTransfer(fs) ==
  [f \in FileIds |->
     IF f \in InTransfer(fs)
       THEN [fs[f] EXCEPT !.cancelled = TRUE,
                          !.errored = @ \/ (fs[f].status <= 0 /\ fs[f].started)]
       ELSE fs[f]]

\* The handles the first loop finds under the keys of the files in
\* transfer; abort(), killProcess(pid) or cancel() is called on each.
HandlesInTransfer(fs) == {processes[fs[f].path] : f \in InTransfer(fs)} \ {0}

\* A call on the handle of a transfer that has ended reaches nothing.
Reached(handles) == handles \cap running

\* backend.queue.removeAllTaskOfType(type): what stays in the queue; every
\* task of the list's queue is of the current direction.
removeAllTaskOfType(q, type) == {f \in q : type # currPath}

\* filesInWaiting: checked && (waiting || status === 0) && !finished
InWaiting(fs) ==
  {f \in FileIds :
     fs[f].checked /\ (fs[f].waiting \/ fs[f].status = 0) /\ ~fs[f].finished}

\* (a second loop that leaves the started flag)
MarkInWaitingKeepsStarted(fs) ==
  [f \in FileIds |->
     IF f \in InWaiting(fs)
       THEN [fs[f] EXCEPT !.cancelled = TRUE, !.checked = FALSE,
                          !.waiting = FALSE, !.progress = 0]
       ELSE fs[f]]

\* The second loop of cancelCheckedFiles.
MarkInWaiting(fs) ==
  [f \in FileIds |->
     IF f \in InWaiting(fs)
       THEN [fs[f] EXCEPT !.cancelled = TRUE, !.checked = FALSE,
                          !.started = FALSE, !.waiting = FALSE, !.progress = 0]
       ELSE fs[f]]

\* The mutation cancelCheckedFiles, with the microtasks that signal the
\* handles.
cancelCheckedFiles ==
  /\ realization = "store"
  /\ signalled' = signalled \cup Reached(HandlesInTransfer(files))
  /\ queue' = removeAllTaskOfType(queue, currPath)
  /\ files' = MarkInWaiting(MarkInTransfer(files))
  /\ lastOp' = "cancelCheckedFiles"
  /\ UNCHANGED <<noTransferVars, currPath, running, processes>>

NextStore ==
  \/ \E f \in FileIds : Enqueue(f)
  \/ \E f \in FileIds : StartTask(f)
  \/ \E f \in FileIds : ProgressTask(f)
  \/ \E f \in FileIds : FinishTask(f)
  \/ \E f \in FileIds : resetFileStatus(f)
  \/ cancelCheckedFiles

SpecStore == InitStore /\ [][NextStore]_vars

\* ========================================================= listProjects
\* Both backends list the projects the user can upload to. What the
\* platform holds is an input: up to MaxProjects projects, each with an
\* access level and any of the two project tags.
MaxProjects == 2

TOOL_PROJECT_TAG == "TOOL_PROJECT_TAG"
DATA_PROJECT_TAG == "DATA_PROJECT_TAG"

ProjectLevels == {"VIEW", "UPLOAD", "ADMINISTER"}

RemoteProject(id) ==
  {[id |-> id, name |-> "project", level |-> l, tags |-> t] :
     l \in ProjectLevels, t \in SUBSET {TOOL_PROJECT_TAG, DATA_PROJECT_TAG}}

RemoteProjects ==
  UNION {{ps \in [1..n -> UNION {RemoteProject(id) : id \in 1..n}] :
            \A k \in 1..n : ps[k].id = k} : n \in 0..MaxProjects}

InitProjects ==
  /\ realization = "projects"
  /\ pc = "idle" /\ size = 0 /\ trace = <<>>
  /\ file = NewTransferFile
  /\ intervalActive = FALSE /\ describePending = FALSE /\ polls = 0
  /\ ranges = <<>> /\ i = 0 /\ bytesRead = 0 /\ bytesWritten = 0
  /\ abortThrew = FALSE
  /\ localSize = 0 /\ watchedSize = 0 /\ statPending = 0
  /\ content = <<>> /\ object = <<>> /\ remoteParts = <<>> /\ maxPart = 0
  /\ InitStoreIdle
  /\ searchTerm = <<>> /\ shown = <<>>
  /\ projects \in RemoteProjects
  /\ allProjects \in BOOLEAN
  /\ apiResult = NoResult
  /\ cliResult = NoResult
  /\ InitAuxIdle

\* level: ProjectLevel.Upload / --level UPLOAD: at least UPLOAD access
AtLeastUpload(level) == level \in {"UPLOAD", "ADMINISTER"}

\* client.system.findProjects(options): tags undefined is no filter,
\* { $or: tags } is any of the tags; one entry per project.
findProjects(tags) ==
  LET hit(p) == /\ AtLeastUpload(p.level)
                /\ (tags = <<>> \/ \E k \in DOMAIN tags : tags[k] \in p.tags)
      found == SelectSeq(projects, hit)
  IN [k \in DOMAIN found |->
        [id |-> found[k].id, level |-> found[k].level,
         describe |-> [name |-> found[k].name, level |-> found[k].level]]]

\* listProjects of the API backend: cb(null, results); a rejected query is
\* cb(err, null), the null kept as no results.
ListProjectsApi ==
  /\ realization = "projects" /\ apiResult = NoResult
  /\ LET tagsToCheck == IF allProjects THEN <<>>
                        ELSE <<TOOL_PROJECT_TAG, DATA_PROJECT_TAG>>
     IN \/ apiResult' = [err |-> "null", results |-> findProjects(tagsToCheck)]
        \/ apiResult' = [err |-> "error", results |-> <<>>]
  /\ UNCHANGED <<auxVars, realization, pc, size, trace, cliVars, xferVars, dlVars, byteVars,
                 storeVars, viewVars, projects, allProjects, cliResult>>

\* stdout of `dx find projects --level UPLOAD --delim <tab> [--tag tag]`:
\* one line of tab-separated fields per project, each ended by a newline.
\* A line is kept as its fields, the text after the last newline is the
\* one empty field.
dxFindProjects(tag) ==
  LET hit(p) == AtLeastUpload(p.level) /\ (tag = "" \/ tag \in p.tags)
      found == SelectSeq(projects, hit)
  IN [k \in DOMAIN found |-> <<found[k].id, found[k].name, found[k].level>>]
     \o << <<"">> >>

\* parseDxProjects: blank lines skipped, the first three fields taken, an
\* entry pushed if there is an access level.
parseDxProjects(stdout) ==
  LET kept(el) == el # <<"">> /\ Len(el) >= 3 /\ el[3] # ""
      lines == SelectSeq(stdout, kept)
  IN [k \in DOMAIN lines |->
        [project_name |-> lines[k][2], dx_location |-> lines[k][1],
         access_level |-> lines[k][3]]]

\* [].concat.apply([], results)
RECURSIVE Flatten(_)
Flatten(results) ==
  IF results = <<>> THEN <<>> ELSE Head(results) \o Flatten(Tail(results))

\* listProjects of the dx backend: one command per tag, async.map collects
\* the parsed outputs in the order of the tags; a failed command gives
\* callback(err, []).
ListProjectsCli ==
  /\ realization = "projects" /\ cliResult = NoResult
  /\ LET tagsToCheck == IF allProjects THEN <<"">>
                        ELSE <<TOOL_PROJECT_TAG, DATA_PROJECT_TAG>>
         results == [k \in DOMAIN tagsToCheck |->
                       parseDxProjects(dxFindProjects(tagsToCheck[k]))]
     IN \/ cliResult' = [err |-> "null", results |-> Flatten(results)]
        \/ cliResult' = [err |-> "error", results |-> <<>>]
  /\ UNCHANGED <<auxVars, realization, pc, size, trace, cliVars, xferVars, dlVars, byteVars,
                 storeVars, viewVars, projects, allProjects, apiResult>>

NextProjects == ListProjectsApi \/ ListProjectsCli

SpecProjects == InitProjects /\ [][NextProjects]_vars

\* ============================================================ currFiles
\* The search of the file list. Names, sizes and terms are texts: sequences
\* of characters. A file has a name of up to MaxNameLen characters and the
\* readable size fileInfoFromPath gave it.
MaxNameLen == 2

NameChars == {"a", "_"}

FileNames == UNION {[1..n -> NameChars] : n \in 1..MaxNameLen}

FileSizeTexts == {<<"1">>, <<"1", "2">>}

ListedFiles == {[name |-> n, size |-> z] : n \in FileNames, z \in FileSizeTexts}

FileLists == UNION {[1..n -> ListedFiles] : n \in 0..2}

SearchTerms ==
  {<<"_">>, <<"a">>, <<"1">>, <<"*">>, <<"_", "a">>, <<"a", "*", "*", "_">>, <<>>}

InitSearch ==
  /\ realization = "search"
  /\ pc = "stale" /\ size = 0 /\ trace = <<>>
  /\ file = NewTransferFile
  /\ intervalActive = FALSE /\ describePending = FALSE /\ polls = 0
  /\ ranges = <<>> /\ i = 0 /\ bytesRead = 0 /\ bytesWritten = 0
  /\ abortThrew = FALSE
  /\ localSize = 0 /\ watchedSize = 0 /\ statPending = 0
  /\ content = <<>> /\ object = <<>> /\ remoteParts = <<>> /\ maxPart = 0
  /\ files \in FileLists
  /\ currPath \in {"upload", "download"}
  /\ queue = {} /\ running = {} /\ processes = <<>> /\ signalled = {}
  /\ lastOp = ""
  /\ searchTerm = <<>> /\ shown = <<>>
  /\ projects = <<>> /\ allProjects = FALSE
  /\ apiResult = NoResult /\ cliResult = NoResult
  /\ InitAuxIdle

\* setSearchTerm: state.searchTerm = term; the getter is evaluated anew.
setSearchTerm(term) ==
  /\ realization = "search"
  /\ searchTerm' = term
  /\ pc' = "stale"
  /\ shown' = <<>>
  /\ UNCHANGED <<auxVars, realization, size, trace, cliVars, xferVars, dlVars, byteVars,
                 storeVars, projectVars>>

\* globToRegExp(term, {flags: 'gim'}): a run of stars is `.*`, any other
\* character of the alphabet stands for itself; with the g flag the
\* expression is not enclosed in ^ and $.
RECURSIVE globToRegExp(_)
globToRegExp(term) ==
  IF term = <<>> THEN <<>>
  ELSE IF Head(term) = "*"
       THEN IF Len(term) >= 2 /\ term[2] = "*"
            THEN globToRegExp(Tail(term))
            ELSE <<".*">> \o globToRegExp(Tail(term))
       ELSE <<Head(term)>> \o globToRegExp(Tail(term))

\* The positions at which a match of the expression can end when it starts
\* after the first s characters of str.
RECURSIVE MatchEnds(_, _, _)
MatchEnds(re, str, s) ==
  IF re = <<>> THEN {s}
  ELSE IF Head(re) = ".*"
       THEN UNION {MatchEnds(Tail(re), str, t) : t \in s..Len(str)}
       ELSE IF s < Len(str) /\ str[s + 1] = Head(re)
            THEN MatchEnds(Tail(re), str, s + 1)
            ELSE {}

SetMax(S) == CHOOSE x \in S : \A y \in S : y <= x
SetMin(S) == CHOOSE x \in S : \A y \in S : x <= y

\* RegExp.prototype.test of an expression with the g flag: the search
\* starts at lastIndex; a match leaves lastIndex at its end (`.*` takes the
\* most it can), a failure leaves 0.
Test(re, lastIndex, str) ==
  LET starts == {s \in lastIndex..Len(str) : MatchEnds(re, str, s) # {}}
  IN IF starts = {}
     THEN [found |-> FALSE, lastIndex |-> 0]
     ELSE [found |-> TRUE, lastIndex |-> SetMax(MatchEnds(re, str, SetMin(starts)))]

\* files.filter(f => rgx.test(f.name) || rgx.test(`${f.size}`)) with the one
\* rgx object, whose lastIndex goes from test to test.
RECURSIVE Filter(_, _, _)
Filter(re, lastIndex, fs) ==
  IF fs = <<>> THEN <<>>
  ELSE LET byName == Test(re, lastIndex, Head(fs).name)
           bySize == IF byName.found THEN byName
                     ELSE Test(re, byName.lastIndex, Head(fs).size)
       IN (IF bySize.found THEN <<Head(fs)>> ELSE <<>>)
          \o Filter(re, bySize.lastIndex, Tail(fs))

\* The currFiles getter; currFileSortKey is '' as in the state of the
\* store, and sortFiles returns at once.
currFiles ==
  IF currPath # "download" \/ searchTerm = <<>>
  THEN files
  ELSE Filter(globToRegExp(searchTerm), 0, files)

CurrFilesGet ==
  /\ realization = "search" /\ pc = "stale"
  /\ shown' = currFiles
  /\ pc' = "shown"
  /\ UNCHANGED <<auxVars, realization, size, trace, cliVars, xferVars, dlVars, byteVars,
                 storeVars, searchTerm, projectVars>>

NextSearch == (\E term \in SearchTerms : setSearchTerm(term)) \/ CurrFilesGet

SpecSearch == InitSearch /\ [][NextSearch]_vars

\* ============================================================= getState
\* The route of the start-up. The three checks after initSJCloudHome
\* (dxToolkitOnPath, dxLoggedIn, dxCheckProjectAccess) call back with an
\* error or with none.
MaxGetStateCalls == 2

\* Every transfer variable at rest, no store, no view.
InitNoTransfer ==
  /\ pc = "idle" /\ size = 0 /\ trace = <<>>
  /\ file = NewTransferFile
  /\ intervalActive = FALSE /\ describePending = FALSE /\ polls = 0
  /\ ranges = <<>> /\ i = 0 /\ bytesRead = 0 /\ bytesWritten = 0
  /\ abortThrew = FALSE
  /\ localSize = 0 /\ watchedSize = 0 /\ statPending = 0
  /\ content = <<>> /\ object = <<>> /\ remoteParts = <<>> /\ maxPart = 0
  /\ InitStoreIdle
  /\ InitViewIdle

Platforms == {"darwin", "linux", "win32", "freebsd"}

InitState ==
  /\ realization = "state"
  /\ InitNoTransfer
  /\ platform \in Platforms
  /\ routed = <<>>
  /\ uncaught = ""
  /\ InitCmdIdle
  /\ InitClientIdle
  /\ InitInstallIdle
  /\ InitMainIdle
  /\ InitTourIdle

\* What module.exports of the file holds when getState runs.
StateExports == {"state_to_route", "getState"}

\* self.state.<name>, self being module.exports: the route, or the
\* TypeError of a property read on undefined.
StateRoute(name) == IF "state" \in StateExports THEN name ELSE "TypeError"

\* return callback(self.state.<name>)
Answer(name) ==
  IF StateRoute(name) = "TypeError"
    THEN /\ pc' = "threw"
         /\ uncaught' = "TypeError"
         /\ UNCHANGED routed
    ELSE /\ pc' = "routed"
         /\ routed' = Append(routed, StateRoute(name))
         /\ UNCHANGED uncaught

startFrame == <<realization, size, cliVars, xferVars, dlVars, byteVars, storeVars,
                viewVars, projectVars, platform, cmdVars, clientVars, installVars,
                mainVars, tourVars>>

\* getState(callback): the platform test, then initSJCloudHome.
GetState ==
  /\ realization = "state" /\ pc \in {"idle", "routed", "threw"}
  /\ Cardinality(PositionsOf("call", "getState")) < MaxGetStateCalls
  /\ IF platform \notin {"darwin", "linux", "win32"}
       THEN /\ trace' = Append(trace, CallEv("getState", 0))
            /\ Answer("UNKNOWN")
       ELSE /\ trace' = trace \o <<CallEv("getState", 0), CallEv("initSJCloudHome", 0)>>
            /\ pc' = "initSJCloudHome"
            /\ UNCHANGED <<routed, uncaught>>
  /\ UNCHANGED startFrame

\* The callback of one check: on an error the route of that check, on
\* none the next check, or UPLOAD after the last.
CheckDone(op, failed, next) ==
  /\ realization = "state" /\ pc = op
  /\ \E err \in BOOLEAN :
       IF err
         THEN /\ trace' = Append(trace, RetEv(op, -1))
              /\ Answer(failed)
         ELSE IF next = ""
           THEN /\ trace' = Append(trace, RetEv(op, 0))
                /\ Answer("UPLOAD")
           ELSE /\ trace' = trace \o <<RetEv(op, 0), CallEv(next, 0)>>
                /\ pc' = next
                /\ UNCHANGED <<routed, uncaught>>
  /\ UNCHANGED startFrame

HomeDone == CheckDone("initSJCloudHome", "UNKNOWN", "dxToolkitOnPath")
ToolkitDone == CheckDone("dxToolkitOnPath", "NEED_DOWNLOAD", "dxLoggedIn")
LoggedInDone == CheckDone("dxLoggedIn", "NEED_LOGIN", "dxCheckProjectAccess")
AccessDone == CheckDone("dxCheckProjectAccess", "UNKNOWN", "")

NextState == GetState \/ HomeDone \/ ToolkitDone \/ LoggedInDone \/ AccessDone

SpecState == InitState /\ [][NextState]_vars

\* =========================================================== runCommand
\* One call of runCommand: the child process ends with an error or none,
\* and with some text on its two outputs.
Stdouts ==
  {<<>>, <<"False">>, <<" ", "False", "\n">>, <<"False", " ", "x">>, <<"ok", "\n">>}

Outcomes ==
  {Outcome(err, out, serr, raise) :
     err \in {"null", "ExecError"}, out \in Stdouts,
     serr \in {"", "warning"}, raise \in BOOLEAN}

InitCommand ==
  /\ realization = "command"
  /\ InitNoTransfer
  /\ platform \in Platforms
  /\ routed = <<>>
  /\ uncaught = ""
  /\ command \in Outcomes
  /\ cmdCallbacks = <<>>
  /\ InitClientIdle
  /\ InitInstallIdle
  /\ InitMainIdle
  /\ InitTourIdle

Whitespace == {" ", "\n"}

\* String.prototype.trim: the white space at both ends is dropped.
RECURSIVE TrimStart(_)
TrimStart(text) ==
  IF text # <<>> /\ Head(text) \in Whitespace THEN TrimStart(Tail(text)) ELSE text

RECURSIVE TrimEnd(_)
TrimEnd(text) ==
  IF text # <<>> /\ text[Len(text)] \in Whitespace
    THEN TrimEnd(SubSeq(text, 1, Len(text) - 1)) ELSE text

Trim(text) == TrimEnd(TrimStart(text))

\* What callback is called with: (err, null) or (null, stdout).
Failure(err) == [err |-> err, isNull |-> TRUE, out |-> <<>>]
Success(out) == [err |-> "null", isNull |-> FALSE, out |-> out]

\* (an innerCallback without the raiseOnStderr test)
innerCallbackAlwaysRaises(c) ==
  IF c.err # "null" THEN Failure(c.err)
  ELSE IF c.stderr # "" THEN Failure(c.stderr)
  ELSE IF Trim(c.stdout) = <<"False">> THEN Failure("STDOUT was False")
  ELSE Success(c.stdout)

\* innerCallback(err, stdout, stderr) of runCommand
innerCallback(c) ==
  IF c.err # "null" THEN Failure(c.err)
  ELSE IF c.raiseOnStderr /\ c.stderr # "" THEN Failure(c.stderr)
  ELSE IF Trim(c.stdout) = <<"False">> THEN Failure("STDOUT was False")
  ELSE Success(c.stdout)

cmdFrame == <<realization, size, cliVars, xferVars, dlVars, byteVars, storeVars,
              viewVars, projectVars, platform, routed, command, clientVars,
              installVars, mainVars, tourVars>>

\* runCommand(cmd, callback, raiseOnStderr): the process is started, or
\* the platform is not one of the three and the call throws.
RunCommand ==
  /\ realization = "command" /\ pc = "idle"
  /\ IF platform \in {"darwin", "linux", "win32"}
       THEN /\ pc' = "running"
            /\ trace' = Append(trace, CallEv("exec", 0))
            /\ UNCHANGED uncaught
       ELSE /\ pc' = "threw"
            /\ uncaught' = "Unrecognized platform"
            /\ UNCHANGED trace
  /\ UNCHANGED <<cmdFrame, cmdCallbacks>>

\* The process has ended: exec calls innerCallback.
CommandExit ==
  /\ realization = "command" /\ pc = "running"
  /\ pc' = "finished"
  /\ trace' = Append(trace, RetEv("exec", IF command.err = "null" THEN 0 ELSE -1))
  /\ cmdCallbacks' = Append(cmdCallbacks, innerCallback(command))
  /\ UNCHANGED <<cmdFrame, uncaught>>

NextCommand == RunCommand \/ CommandExit

SpecCommand == InitCommand /\ [][NextCommand]_vars

\* ================================================ the API backend calls
\* One call of login, loggedIn, describe, listFiles or listProjects of the
\* API backend, with a token that is empty, accepted or refused, and for
\* describe and listFiles an identifier that is empty or not.
ClientFunctions == {"login", "loggedIn", "describe", "listFiles", "listProjects"}

Tokens == {"", "token", "expired"}

Requests ==
  {Request(fn, t, id, th) :
     fn \in ClientFunctions, t \in Tokens, id \in {"", "id-1"}, th \in BOOLEAN}
  \ {Request(fn, t, "id-1", th) :
       fn \in {"login", "loggedIn", "listProjects"}, t \in Tokens, th \in BOOLEAN}

InitClient ==
  /\ realization = "client"
  /\ InitNoTransfer
  /\ InitStartIdle
  /\ InitCmdIdle
  /\ request \in Requests
  /\ clientCallbacks = <<>>
  /\ InitInstallIdle
  /\ InitMainIdle
  /\ InitTourIdle

\* The test each function makes before it builds a Client: login tests
\* the token, describe the dxId, listFiles the projectId; loggedIn and
\* listProjects test nothing.
Refused(r) ==
  \/ r.fn = "login" /\ r.token = ""
  \/ r.fn \in {"describe", "listFiles"} /\ r.id = ""

\* What the callback is called with on success: loggedIn gives true, the
\* others the result of the request.
Result(r) == IF r.fn \in {"login", "loggedIn"} THEN "true" ELSE "result"

\* and on a failed request: loggedIn gives (e, false), the others (err, null)
NoResultOf(r) == IF r.fn \in {"login", "loggedIn"} THEN "false" ELSE "null"

ClientCall(err, res) == [err |-> err, res |-> res]

unchangedUncaughtFrame == <<realization, size, cliVars, xferVars, dlVars, byteVars,
                            storeVars, viewVars, projectVars, platform, routed,
                            cmdVars, request, installVars, mainVars, tourVars>>

\* The call: the callback gets the error of the test at once (an
\* exception of the callback goes to the caller), or the request is sent.
CallClient ==
  /\ realization = "client" /\ pc = "idle"
  /\ IF Refused(request)
       THEN /\ clientCallbacks' = Append(clientCallbacks,
                                         ClientCall("cannot be null/empty", "null"))
            /\ trace' = trace
            /\ pc' = "done"
            /\ uncaught' = IF request.callbackThrows THEN "callback" ELSE uncaught
       ELSE /\ trace' = Append(trace, CallEv("request", 0))
            /\ pc' = "requested"
            /\ UNCHANGED <<clientCallbacks, uncaught>>
  /\ UNCHANGED unchangedUncaughtFrame

\* The request is answered. `.then(ok).catch(failed)` and the try / catch
\* of loggedIn alike: an exception thrown by the callback in the success
\* branch is caught by the failure branch, which calls the callback again;
\* an exception thrown there is an unhandled rejection.
RequestDone ==
  /\ realization = "client" /\ pc = "requested"
  /\ \E ok \in {request.token = "token", FALSE} :
       /\ trace' = Append(trace, RetEv("request", IF ok THEN 0 ELSE -1))
       /\ clientCallbacks' =
            IF ok
              THEN IF request.callbackThrows
                     THEN clientCallbacks \o <<ClientCall("null", Result(request)),
                                               ClientCall("callback", NoResultOf(request))>>
                     ELSE Append(clientCallbacks, ClientCall("null", Result(request)))
              ELSE Append(clientCallbacks, ClientCall("remote", NoResultOf(request)))
  /\ pc' = "done"
  /\ uncaught' = IF request.callbackThrows THEN "callback" ELSE uncaught
  /\ UNCHANGED unchangedUncaughtFrame

NextClient == CallClient \/ RequestDone

SpecClient == InitClient /\ [][NextClient]_vars

\* ===================================================== installDxToolkit
\* The download of the toolkit arrives in up to MaxChunks chunks; what it
\* delivers has the expected hash or another one.
MaxChunks == 3

Toolkits ==
  {[ubuntu |-> u, hash |-> h] :
     u \in {"ubuntu12", "ubuntu14", "null"}, h \in {"expected", "corrupt", "other"}}

InitInstall ==
  /\ realization = "install"
  /\ InitNoTransfer
  /\ platform \in Platforms
  /\ routed = <<>> /\ uncaught = ""
  /\ InitCmdIdle
  /\ InitClientIdle
  /\ toolkit \in {t \in Toolkits : platform # "linux" => t.ubuntu = "null"}
  /\ downloaded = 0
  /\ installProgress = <<>>
  /\ installCallbacks = <<>>
  /\ InitMainIdle
  /\ InitTourIdle

\* os.platform(), on linux replaced by utils.getUbuntuVersionOrNull()
InstallPlatform == IF platform = "linux" THEN toolkit.ubuntu ELSE platform

\* dxToolkitDownloadInfo knows these; for any other it throws.
DownloadInfoPlatforms == {"darwin", "ubuntu12", "ubuntu14", "win32"}

\* The parameters of utils.downloadFile(url, dest): it returns a promise
\* and takes no callback.
downloadFileParams == <<"url", "dest">>

installFrame == <<realization, size, cliVars, xferVars, dlVars, byteVars, storeVars,
                  viewVars, projectVars, platform, routed, cmdVars, clientVars,
                  toolkit, mainVars, tourVars>>

\* installDxToolkit up to the call of utils.downloadFile.
InstallDxToolkit ==
  /\ realization = "install" /\ pc = "idle"
  /\ IF InstallPlatform \in DownloadInfoPlatforms
       THEN /\ installProgress' = Append(installProgress, "30%")
            /\ trace' = Append(trace, CallEv("downloadFile", 0))
            /\ pc' = "downloading"
            /\ UNCHANGED uncaught
       ELSE /\ pc' = "threw"
            /\ uncaught' = "Unrecognized platform"
            /\ UNCHANGED <<installProgress, trace>>
  /\ UNCHANGED <<installFrame, downloaded, installCallbacks>>

\* res.pipe(file): one more chunk is written.
DownloadChunk ==
  /\ realization = "install" /\ pc = "downloading"
  /\ downloaded < MaxChunks
  /\ downloaded' = downloaded + 1
  /\ UNCHANGED <<installFrame, pc, trace, uncaught, installProgress, installCallbacks>>

\* file 'finish': the promise of downloadFile resolves. The function given
\* as third argument is called only if downloadFile has such a parameter;
\* it would go on with "60%" and the verification.
DownloadFinish ==
  /\ realization = "install" /\ pc = "downloading"
  /\ trace' = Append(trace, RetEv("downloadFile", 0))
  /\ IF \E k \in DOMAIN downloadFileParams : downloadFileParams[k] = "callback"
       THEN /\ installProgress' = Append(installProgress, "60%")
            /\ pc' = "verifying"
       ELSE /\ pc' = "downloaded"
            /\ UNCHANGED installProgress
  /\ UNCHANGED <<installFrame, downloaded, uncaught, installCallbacks>>

\* file 'error': the promise rejects, and nothing handles the rejection.
DownloadError ==
  /\ realization = "install" /\ pc = "downloading"
  /\ trace' = Append(trace, RetEv("downloadFile", -1))
  /\ pc' = "downloadFailed"
  /\ uncaught' = "unhandled rejection"
  /\ UNCHANGED <<installFrame, downloaded, installProgress, installCallbacks>>

NextInstall == InstallDxToolkit \/ DownloadChunk \/ DownloadFinish \/ DownloadError

\* Each step that can be taken is taken in the end: the download does not
\* stay open for ever.
SpecInstall == InitInstall /\ [][NextInstall]_vars /\ WF_vars(NextInstall)

\* ====================================================== the main process
\* The events of the Electron app on macOS: 'ready', 'activate', up to
\* MaxOpenUrls 'open-url' events, the answers of ui.createWindow, and the
\* user closing the window. At most MaxPendingWindows createWindow calls
\* are followed at a time.
MaxOpenUrls == 2
MaxPendingWindows == 2

InitMain ==
  /\ realization = "main"
  /\ InitNoTransfer
  /\ platform = "darwin"
  /\ routed = <<>> /\ uncaught = ""
  /\ InitCmdIdle
  /\ InitClientIdle
  /\ InitInstallIdle
  /\ InitMainIdle
  /\ InitTourIdle

\* protocol.handleURIMac(event, url): the command for the url, '' for a
\* url that is not one of the application. The k-th event carries the url
\* k, or 0 for such a url.
handleURIMac(url) == IF url = 0 THEN <<>> ELSE <<"command", url>>

\* ensureWindow(callback): nothing before 'ready'; a window is created,
\* and the callback kept for its creation, only if there is no window.
ensureWindow(callback) ==
  IF ~appReady' THEN pendingWindows
  ELSE IF mainWindow \in {"undefined", "destroyed"}
       THEN Append(pendingWindows, callback)
       ELSE pendingWindows

mainFrame == <<realization, pc, size, trace, cliVars, xferVars, dlVars, byteVars,
               storeVars, viewVars, projectVars, startVars, cmdVars, clientVars,
               installVars, tourVars>>

\* app.on('ready')
Ready ==
  /\ realization = "main" /\ ~appReady
  /\ appReady' = TRUE
  /\ pendingWindows' = ensureWindow("ready")
  /\ UNCHANGED <<mainFrame, mainWindow, startupOptions, uriCommand, executed, openUrls>>

\* app.on('activate')
Activate ==
  /\ realization = "main"
  /\ Len(pendingWindows) < MaxPendingWindows
  /\ appReady' = appReady
  /\ pendingWindows' = ensureWindow("none")
  /\ UNCHANGED <<mainFrame, mainWindow, startupOptions, uriCommand, executed, openUrls>>

\* app.on('open-url')
OpenUrl ==
  /\ realization = "main"
  /\ Len(openUrls) < MaxOpenUrls
  /\ \E url \in {0, Len(openUrls) + 1} :
       /\ openUrls' = Append(openUrls, url)
       /\ appReady' = appReady
       /\ IF ~appReady
            THEN /\ startupOptions' = [open_url_event_occurred |-> TRUE,
                                       open_url_url |-> url]
                 /\ UNCHANGED <<uriCommand, pendingWindows>>
            ELSE /\ uriCommand' = handleURIMac(url)
                 /\ pendingWindows' = IF handleURIMac(url) # <<>>
                                        THEN ensureWindow("open-url")
                                        ELSE pendingWindows
                 /\ UNCHANGED startupOptions
  /\ UNCHANGED <<mainFrame, mainWindow, executed>>

\* What executeJavaScript is given, and the window it is given to.
Execution(cmd, window) == [cmd |-> cmd, window |-> window]

\* The callback of ui.createWindow: mainWindow = mw, bootstrapWindow, and
\* the callback ensureWindow was given.
WindowCreated ==
  /\ realization = "main" /\ pendingWindows # <<>>
  /\ mainWindow' = "open"
  /\ pendingWindows' = Tail(pendingWindows)
  /\ LET callback == Head(pendingWindows)
         cmd == IF callback = "ready"
                  THEN IF startupOptions.open_url_event_occurred
                         THEN handleURIMac(startupOptions.open_url_url)
                         ELSE <<>>
                  ELSE IF callback = "open-url" THEN uriCommand ELSE <<>>
     IN executed' = IF callback = "open-url" \/ cmd # <<>>
                      THEN Append(executed, Execution(cmd, mainWindow'))
                      ELSE executed
  /\ UNCHANGED <<mainFrame, appReady, startupOptions, uriCommand, openUrls>>

\* The user closes the window; on macOS the app stays.
CloseWindow ==
  /\ realization = "main" /\ mainWindow = "open"
  /\ mainWindow' = "destroyed"
  /\ UNCHANGED <<mainFrame, appReady, startupOptions, uriCommand, pendingWindows,
                 executed, openUrls>>

NextMain == Ready \/ Activate \/ OpenUrl \/ WindowCreated \/ CloseWindow

SpecMain == InitMain /\ [][NextMain]_vars

\* ============================================================== the tour
\* The prompt of the guided tour, in the renderer (tour.__promptUser, with
\* its polling for the tools) and in the earlier frontend
\* (tour.promptUser): realization is "tour" for the first and "tour0" for
\* the second. window.location.port is 9876 under the test runner.
MaxTries == 10

TourPaths == {"/upload", "/download", "/", "/home"}

TourPorts == {"", "9876"}

InitTour ==
  /\ realization \in {"tour", "tour0"}
  /\ InitNoTransfer
  /\ platform \in TourPorts
  /\ routed = <<>> /\ uncaught = ""
  /\ InitCmdIdle
  /\ InitClientIdle
  /\ InitInstallIdle
  /\ InitMainIdle
  /\ InitTourIdle

tourFrame == <<realization, pc, size, trace, cliVars, xferVars, dlVars, byteVars,
               storeVars, viewVars, projectVars, startVars, cmdVars, clientVars,
               installVars, mainVars>>

\* (the polling given up one try later)
GiveUpLate(n) == n > MaxTries + 1

\* if (numTries > 10) clearInterval(waitingForTools)
GiveUp(n) == n > MaxTries

\* tour.__promptUser(path)
PromptUser(path) ==
  /\ realization = "tour"
  /\ IF \/ tourInitialized \/ userPrompted
        \/ (path # "/upload" /\ path # "/download")
        \/ platform = "9876"
       THEN UNCHANGED <<userPrompted, numTries, waitingForTools>>
       ELSE /\ userPrompted' = TRUE
            /\ numTries' = 0
            /\ waitingForTools' = waitingForTools + 1
  /\ UNCHANGED <<tourFrame, tourInitialized, toolsLoaded, promptTimeout, tourState,
                 autoStarts>>

\* One firing of the interval: no tools yet, and the polling is given up
\* after too many tries; or the tools are there and the tour starts, with
\* the timeout that ends it.
PollTick ==
  /\ realization = "tour" /\ waitingForTools > 0
  /\ IF ~toolsLoaded
       THEN /\ numTries' = numTries + 1
            /\ waitingForTools' = IF GiveUp(numTries') THEN waitingForTools - 1
                                  ELSE waitingForTools
            /\ UNCHANGED <<tourInitialized, promptTimeout, tourState, autoStarts>>
       ELSE /\ waitingForTools' = waitingForTools - 1
            /\ tourInitialized' = TRUE
            /\ tourState' = "running"
            /\ promptTimeout' = "armed"
            /\ autoStarts' = autoStarts + 1
            /\ UNCHANGED numTries
  /\ UNCHANGED <<tourFrame, userPrompted, toolsLoaded>>

\* The tools of the store arrive.
ToolsLoaded ==
  /\ realization = "tour" /\ ~toolsLoaded
  /\ toolsLoaded' = TRUE
  /\ UNCHANGED <<tourFrame, tourInitialized, userPrompted, waitingForTools, numTries,
                 promptTimeout, tourState, autoStarts>>

\* The 5000 ms are over: tour.end().
TimeoutFires ==
  /\ realization = "tour" /\ promptTimeout = "armed"
  /\ promptTimeout' = "fired"
  /\ tourState' = "ended"
  /\ UNCHANGED <<tourFrame, tourInitialized, userPrompted, waitingForTools, numTries,
                 toolsLoaded, autoStarts>>

\* if (tour.__promptTimeout) clearTimeout(tour.__promptTimeout)
clearPromptTimeout == IF promptTimeout = "armed" THEN "cleared" ELSE promptTimeout

\* The user goes to another step of the running tour: its onShow.
ShowStep ==
  /\ realization = "tour" /\ tourState = "running"
  /\ promptTimeout' = clearPromptTimeout
  /\ UNCHANGED <<tourFrame, tourInitialized, userPrompted, waitingForTools, numTries,
                 toolsLoaded, tourState, autoStarts>>

\* tour.__start(i)
StartTour ==
  /\ realization = "tour"
  /\ promptTimeout' = clearPromptTimeout
  /\ tourInitialized' = TRUE
  /\ tourState' = "running"
  /\ UNCHANGED <<tourFrame, userPrompted, waitingForTools, numTries, toolsLoaded,
                 autoStarts>>

\* tour.promptUser() of the frontend: the tour is started unless it was.
promptUser ==
  /\ realization = "tour0"
  /\ IF tourInitialized
       THEN UNCHANGED <<tourInitialized, tourState, autoStarts>>
       ELSE /\ tourState' = "running"
            /\ autoStarts' = autoStarts + 1
            /\ tourInitialized' = TRUE
  /\ UNCHANGED <<tourFrame, userPrompted, waitingForTools, numTries, toolsLoaded,
                 promptTimeout>>

NextTour ==
  \/ \E path \in TourPaths : PromptUser(path)
  \/ PollTick
  \/ ToolsLoaded
  \/ TimeoutFires
  \/ ShowStep
  \/ StartTour
  \/ promptUser

SpecTour == InitTour /\ [][NextTour]_vars

Next == NextCli \/ NextXfer \/ NextDl \/ NextDxDl

Spec == Init /\ [][Next]_vars

\* ================================================================ claims
Prog(k) == [n |-> trace[k].n, d |-> trace[k].d]
IsUpload == realization \in {"cli", "xfer"}
Calls(op) == PositionsOf("call", op)
Returned(op, idx) == {k \in PositionsOf("ret", op) : trace[k].n = idx}
Failures == {k \in Positions("ret") : trace[k].n = -1}

\* C1: the values passed to an upload's progress callback, polled
\* (watchRemoteFile) or pushed ('drain'), never decrease: no value is
\* lower than a value passed earlier for the same transfer.
C1_ProgressMonotone ==
  IsUpload =>
    \A j, k \in Positions("progress") : j < k => ~Lower(Prog(k), Prog(j))

\* C1 witness: the second part of an upload has reported progress after
\* the first part did.
C1_Witness ==
  /\ realization = "xfer" /\ pc = "put" /\ i = 1 /\ bytesWritten > 0
  /\ Cardinality(Positions("progress")) >= 2

\* C2: every value passed to an upload's progress callback, for a file
\* with raw_size > 0, lies in [0, 100].
C2_ProgressInRange ==
  (IsUpload /\ size > 0) =>
    \A k \in Positions("progress") :
      trace[k].n >= 0 /\ trace[k].n <= 100 * trace[k].d

\* The committed totals that the polls of watchRemoteFile have read.
Samples == {k \in PositionsOf("ret", "describe") : trace[k].n >= 0}
MaxSample(ks) == CHOOSE m \in {trace[k].n : k \in ks} :
                   \A k \in ks : trace[k].n <= m

\* C3: after each poll that reads a committed total, largestReportedProgress
\* is the maximum of all totals sampled since the upload started, and the
\* poll reports that maximum / raw_size * 100.
C3_PollReportsMaximum ==
  (realization = "cli" /\ Samples # {}) =>
    /\ file.largestReportedProgress = MaxSample(Samples)
    /\ \A k \in Samples :
         Prog(k + 1) = Percent(MaxSample({j \in Samples : j <= k}), size)

\* The cancels that arrived while a part's PUT was in flight.
CancelsDuringPut ==
  {c \in Positions("cancel") :
     \E p \in Calls("PUT") :
       /\ p < c
       /\ \A r \in PositionsOf("ret", "PUT") : r < p \/ r > c}

\* C4: after an upload is cancelled while a part is being transmitted, no
\* further upload-part request, PUT or close is issued for it, and it is
\* not reported as completed.
C4_CancelStopsUpload ==
  realization = "xfer" =>
    \A c \in CancelsDuringPut :
      \A k \in (c + 1)..Len(trace) :
        /\ ~(trace[k].e = "call" /\ trace[k].op \in {"file.upload", "PUT", "file.close"})
        /\ trace[k] # FinishedEv("null")

\* C5: finishedCb is invoked at most once per transfer.
C5_FinishedAtMostOnce == Cardinality(Positions("finished")) <= 1

\* C6: when the upload command succeeds and the tag command fails, the
\* upload is reported as completed and finishedCb is never given the
\* tagging error.
C6_TagFailureNotReported ==
  (realization = "cli" /\ Returned("dx tag", -1) # {}) =>
    /\ PositionsOf("finished", "null") # {}
    /\ PositionsOf("finished", "tag error") = {}

\* C7: a failure at any step of an UploadTransfer is delivered to the
\* caller through finishedCb with the error: an upload that has stopped
\* on a failure has reported it.
C7_FailureReported ==
  (realization = "xfer" /\ pc \in {"rejected", "hung"}) =>
    \E k \in Positions("finished") : trace[k].op # "null"

\* The work on one part: its digest, its upload-URL request, its PUT.
PartCalls == Calls("md5Sum") \cup Calls("file.upload") \cup Calls("PUT")

\* C8: parts are transmitted strictly in plan order with the indices
\* 1..N: the work on a part begins only after the PUT of the part before
\* it was acknowledged, at most one PUT is in flight, and the index sent
\* is the position of the range in the byte plan.
C8_PartsInPlanOrder ==
  realization = "xfer" =>
    /\ \A k \in PartCalls :
         /\ trace[k].n \in 1..Len(ranges)
         /\ trace[k].n > 1 => \E a \in Returned("PUT", trace[k].n - 1) : a < k
         /\ \A j \in PartCalls :
              (j < k /\ trace[j].op = trace[k].op) => trace[j].n < trace[k].n
    /\ \A k \in Calls("PUT") : trace[k].d = ranges[trace[k].n].start
    /\ Cardinality(Calls("PUT")) - Cardinality(PositionsOf("ret", "PUT")) \in {0, 1}

\* C8 witness: a plan of at least two parts whose second part was
\* acknowledged.
C8_Witness ==
  realization = "xfer" /\ Len(ranges) >= 2 /\ Returned("PUT", 2) # {}

\* C9: the remote object is closed at most once, only after every planned
\* part was acknowledged and nothing failed; no part is requested or sent
\* after the close; success is reported only after the close returned.
C9_ClosedOnceAfterAllParts ==
  realization = "xfer" =>
    /\ Cardinality(Calls("file.close")) <= 1
    /\ \A c \in Calls("file.close") :
         /\ \A idx \in 1..Len(ranges) : \E a \in Returned("PUT", idx) : a < c
         /\ \A f \in Failures : f > c
         /\ \A k \in PartCalls : k < c
    /\ \A s \in PositionsOf("finished", "null") :
         \E r \in Returned("file.close", 0) : r < s

\* C9 witness: an upload of at least two parts was closed and reported.
C9_Witness ==
  /\ realization = "xfer" /\ pc = "done" /\ Len(ranges) >= 2
  /\ PositionsOf("finished", "null") # {}

\* C10: the reconciler stops with its task: the polling interval is
\* cleared when finishedCb runs, and after the terminal callback of an
\* upload (watchRemoteFile) or a download (fs.watchFile) no progress
\* callback is delivered for that task.
C10_NoProgressAfterFinished ==
  realization \in {"cli", "dxdl"} =>
    \A f \in Positions("finished") :
      /\ ~intervalActive
      /\ \A k \in (f + 1)..Len(trace) : trace[k].e # "progress"

\* C11: at most one describe poll of watchRemoteFile is outstanding at any
\* time: the lock is held exactly while a describe is outstanding, and a
\* describe is issued only after the callback of the one before it ran.
C11_OneDescribeOutstanding ==
  realization = "cli" =>
    /\ file.sizeCheckingLock = describePending
    /\ \A k \in 0..Len(trace) :
         Cardinality({c \in Calls("describe") : c <= k})
           - Cardinality({r \in PositionsOf("ret", "describe") : r <= k})
         \in {0, 1}

\* C11 witness: a second describe is outstanding after the first one's
\* callback ran, and ticks arrive while the lock is held.
C11_Witness ==
  /\ realization = "cli" /\ intervalActive /\ file.sizeCheckingLock
  /\ Cardinality(Calls("describe")) = 2
  /\ Cardinality(PositionsOf("ret", "describe")) = 1

\* An upload whose plan was made and whose parts are being, or were, sent.
Planned == realization = "xfer" /\ maxPart > 0

\* C14: the ranges prepare obtains are ordered, contiguous, disjoint, none
\* longer than maximumPartSize, and cover bytes 0..size-1 exactly; the part
\* sizes declared to the remote are the sizes of these ranges, and once every
\* part is declared they sum to the file size.
C14_PlanCoversFile ==
  Planned =>
    /\ \A k \in 1..Len(ranges) :
         /\ ranges[k].start = (IF k = 1 THEN 0 ELSE ranges[k - 1].end + 1)
         /\ ranges[k].start <= ranges[k].end
         /\ ranges[k].end - ranges[k].start + 1 <= maxPart
    /\ (IF ranges = <<>> THEN size = 0 ELSE ranges[Len(ranges)].end = size - 1)
    /\ \A x \in DOMAIN remoteParts :
         /\ x \in 1..Len(ranges)
         /\ remoteParts[x].size = ranges[x].end - ranges[x].start + 1
    /\ pc \in {"close", "done"} =>
         SumSeq([k \in 1..Len(ranges) |-> remoteParts[k].size]) = size

\* C14 witness: a file that is not a multiple of the part size was sent in
\* more than one part, the last one shorter.
C14_Witness ==
  /\ Planned /\ pc = "close" /\ Len(ranges) >= 2
  /\ remoteParts[Len(ranges)].size < maxPart

\* C15: the plan is a function of the file size and the maximum part size
\* alone: range k (from 1) is (k-1)*maxPart .. min(k*maxPart, size) - 1, for
\* ceil(size / maxPart) ranges; size 100000 with parts of 30000 gives
\* [0,29999], [30000,59999], [60000,89999], [90000,99999].
C15_PlanIsFunctionOfSizes ==
  (realization = "plan" /\ pc = "planned") =>
    /\ Len(ranges) = (size + maxPart - 1) \div maxPart
    /\ \A k \in 1..Len(ranges) :
         ranges[k] = [start |-> (k - 1) * maxPart,
                      end |-> Min(k * maxPart, size) - 1]
    /\ (size = ExamplePlanInput.size /\ maxPart = ExamplePlanInput.maxPart) =>
         ranges = <<[start |-> 0, end |-> 29999], [start |-> 30000, end |-> 59999],
                    [start |-> 60000, end |-> 89999], [start |-> 90000, end |-> 99999]>>

\* C15 witness: the documented example was planned.
C15_Witness ==
  /\ realization = "plan" /\ pc = "planned"
  /\ size = ExamplePlanInput.size /\ maxPart = ExamplePlanInput.maxPart
  /\ Len(ranges) = 4

\* C16: the upload of a file of size 0 goes through: no part is transferred,
\* none fails, the object is closed empty and success is reported; and no
\* progress value that is a division by the zero size reaches progressCb.
C16_EmptyFileUploads ==
  (IsUpload /\ size = 0) =>
    /\ \A k \in Positions("progress") : trace[k].d # 0
    /\ realization = "xfer" =>
         /\ PartCalls = {}
         /\ pc \notin {"md5", "url", "put", "hung"}
         /\ pc = "done" => (object = <<>> /\ FinishedEv("null") \in Range(trace))

\* A download, reported successful, of the object an UploadTransfer closed.
DownloadedUpload ==
  /\ realization = "dl" /\ maxPart > 0
  /\ pc = "done" /\ FinishedEv("null") \in Range(trace)
  /\ WriterOpened

\* C17: an upload through UploadTransfer followed by a download through
\* downloadFile reproduces the bytes of the source file: the closed object
\* holds them, and the local file, once written out, equals them.
C17_RoundTrip ==
  /\ (realization = "xfer" /\ pc = "done") => object = content
  /\ DownloadedUpload =>
       /\ LocalFile = SubSeq(content, 1, localSize)
       /\ localSize = size => LocalFile = content

\* C17 witness: a file of differing bytes went up in several parts and came
\* back whole.
C17_Witness ==
  /\ DownloadedUpload /\ localSize = size
  /\ Len(ranges) >= 2
  /\ \E j, k \in 1..Len(content) : content[j] # content[k]

\* The steps of transfer() that failed: digest, upload target or PUT.
PartFailures == {f \in Failures : trace[f].op \in {"md5Sum", "file.upload", "PUT"}}

C20_DigestBeforeTransmission ==
  realization = "xfer" =>
    /\ \A u \in Calls("file.upload") \cup Calls("PUT") :
         \E m \in Returned("md5Sum", trace[u].n) : m < u
    /\ \A x \in DOMAIN remoteParts :
         LET bytes == SubSeq(content, ranges[x].start + 1, ranges[x].end + 1)
         IN /\ remoteParts[x].md5 = Digest(bytes)
            /\ remoteParts[x].size = Len(bytes)
            /\ remoteParts[x].stored => remoteParts[x].data = bytes

\* C20 witness: the second part of a file was declared and stored, and its
\* digest differs from the digest of the whole file.
C20_Witness ==
  /\ realization = "xfer" /\ Len(ranges) >= 2
  /\ 2 \in DOMAIN remoteParts /\ remoteParts[2].stored
  /\ remoteParts[2].md5 # Digest(content)

\* C18: cancelling a command-line upload that is finalizing (the upload
\* command has returned, the tag command runs) changes nothing about it: the
\* file is not marked cancelled, no process is killed, and the upload goes
\* on to be reported as completed.
C18_CancelWhileTaggingIsNoOp ==
  (realization = "cli" /\ file.cancelledAt = "tagging") =>
    /\ ~file.cancelled
    /\ file.killed = ""
    /\ pc = "done" => trace[Len(trace)] = FinishedEv("null")

\* C12: when cancelCheckedFiles has returned, every file of the direction
\* whose task was queued or in progress is marked cancelled, its queue entry
\* is gone, and no file is reported as in progress (started, and neither
\* finished nor cancelled).
C12_CancelsAllOfDirection ==
  (realization = "store" /\ lastOp = "cancelCheckedFiles") =>
    /\ queue = {}
    /\ \A f \in FileIds :
         ((files[f].started \/ files[f].waiting) /\ ~files[f].finished)
           => files[f].cancelled

UploadBegins == Calls("dx upload") \cup Calls("file.new")

\* C21: every upload, in both realizations, removes the object that may be
\* at the destination path before it creates or uploads the new one.
C21_OldObjectRemovedFirst ==
  IsUpload => \A k \in UploadBegins : \E r \in Calls("rm") : r < k

\* The calls that tag the uploaded object.
TagCalls == Calls("dx tag") \cup Calls("tag")

\* C22: an upload reported as completed was tagged exactly once before the
\* report, in both realizations, and a tag is applied only after the upload
\* of the data succeeded.
C22_TaggedOnceBeforeCompletion ==
  IsUpload =>
    /\ \A k \in PositionsOf("finished", "null") :
         Cardinality({t \in TagCalls : t < k}) = 1
    /\ \A t \in TagCalls :
         \E u \in Returned("dx upload", 0) \cup Returned("file.close", 0) : u < t

\* The failures of planning: of the describe, or of the upload parameters.
PlanFailures ==
  {f \in Failures : trace[f].op \in {"project.describe", "fileUploadParameters"}}

\* C23: UploadTransfer.start has the project's maximum part size and the
\* byte plan before it creates the remote object; when the project exposes
\* no upload parameters, or the describe fails, no object is created and no
\* part is sent.
C23_PlanBeforeRemoteMutation ==
  realization = "xfer" =>
    /\ \A k \in Calls("file.new") \cup PartCalls :
         /\ \E d \in PositionsOf("ret", "project.describe") :
              d < k /\ trace[d].n = maxPart /\ maxPart >= 1
         /\ ranges = byteRanges(size, maxPart)
    /\ PlanFailures # {} => (Calls("file.new") = {} /\ PartCalls = {})

\* C23 witness: the project had no upload parameters and the upload stopped
\* there.
C23_Witness ==
  /\ realization = "xfer" /\ pc = "rejected"
  /\ trace[Len(trace)] = RetEv("fileUploadParameters", -1)

\* C24: the local destination file of a download exists before the transfer
\* of the data is started and before the first progress sample is taken:
\* downloadDxFile has touched it before `dx download` and any stat,
\* downloadFile has it open before the GET and any progress event.
C24_PlaceholderBeforeDownload ==
  /\ realization = "dxdl" =>
       \A k \in Calls("dx download") \cup Calls("stat") \cup Positions("progress") :
         \E t \in Calls("touch") : t < k
  /\ realization = "dl" =>
       \A k \in Calls("GET") \cup Positions("progress") :
         \E o \in Returned("createWriteStream", 0) : o < k

\* C25: the cancelled flag of a file, once set, is never cleared: no
\* operation of the store sets it back to false, and a file that
\* resetFileStatus returned to its initial status still carries it.
C25_CancelledNeverCleared ==
  [][realization = "store" =>
       \A f \in FileIds : files[f].cancelled => files'[f].cancelled]_vars

\* C25 witness: a file cancelled during its transfer was reset afterwards
\* (it is still checked, so its status was above 0 when it was cancelled).
C25_Witness ==
  /\ realization = "store"
  /\ \E f \in FileIds :
       /\ files[f].cancelled /\ files[f].checked
       /\ files[f].status = 0
       /\ ~files[f].waiting /\ ~files[f].started
       /\ ~files[f].finished /\ ~files[f].errored

\* C30: a run of cancelCheckedFiles leaves the flags of every unchecked file
\* and of every finished file as they were, and leaves the queued task of an
\* unchecked file in the queue, so that the file is still transferred.
C30_CancelTouchesCheckedOnly ==
  [][(realization = "store" /\ lastOp' = "cancelCheckedFiles") =>
       \A f \in FileIds :
         (~files[f].checked \/ files[f].finished) =>
           /\ files'[f] = files[f]
           /\ f \in queue => f \in queue']_vars

Acknowledged == {trace[k].n : k \in {r \in PositionsOf("ret", "PUT") : trace[r].n >= 1}}

\* C29: bytesRead of an UploadTransfer is the sum of the sizes of the parts
\* acknowledged so far; it never exceeds the file size, and it is the file
\* size when close is called.
C29_BytesReadIsAcknowledgedSum ==
  realization = "xfer" =>
    /\ Acknowledged = 1..Cardinality(Acknowledged)
    /\ bytesRead = SumSeq([k \in 1..Cardinality(Acknowledged) |->
                             ranges[k].end - ranges[k].start + 1])
    /\ bytesRead <= size
    /\ Calls("file.close") # {} => bytesRead = size

\* C29 witness: the first of several parts is acknowledged and the second
\* is on its way.
C29_Witness ==
  /\ realization = "xfer" /\ pc = "put" /\ i = 1
  /\ Acknowledged = {1}
  /\ bytesRead > 0 /\ bytesRead < size

\* The projects of a listing, whatever the shape of its entries.
ApiIds == [k \in DOMAIN apiResult.results |-> apiResult.results[k].id]
CliIds == [k \in DOMAIN cliResult.results |-> cliResult.results[k].dx_location]

\* C26: for the same projects on the platform and the same allProjects
\* flag, the two listProjects return the same projects, and each project
\* once.
C26_SameProjectsOnce ==
  (realization = "projects" /\ apiResult.err = "null" /\ cliResult.err = "null") =>
    /\ Range(ApiIds) = Range(CliIds)
    /\ Cardinality(Range(ApiIds)) = Len(ApiIds)
    /\ Cardinality(Range(CliIds)) = Len(CliIds)

\* The term is found somewhere in the text.
Matches(term, str) == Test(globToRegExp(term), 0, str).found

\* C27: on the download path with a search term, currFiles is the files
\* whose name or size matches the term, in the order of the list; on the
\* upload path or without a term it is the whole list.
C27_SearchShowsMatches ==
  (realization = "search" /\ pc = "shown") =>
    shown = IF currPath = "download" /\ searchTerm # <<>>
            THEN SelectSeq(files, LAMBDA f : \/ Matches(searchTerm, f.name)
                                             \/ Matches(searchTerm, f.size))
            ELSE files

\* C31: a step of cancelCheckedFiles leaves every file that was checked,
\* unfinished and waiting or at status 0 cancelled, unchecked, not started,
\* not waiting and at progress 0; a file that was in transfer with a
\* status above 0 keeps its status and its started flag and is cancelled;
\* errored is newly set on the files that had started with status <= 0 and
\* on no other.
C31_CancelMarksFiles ==
  [][(realization = "store" /\ lastOp' = "cancelCheckedFiles") =>
       \A f \in FileIds :
         LET old == files[f]
             new == files'[f]
             inTransfer == old.checked /\ old.started /\ ~old.finished
         IN /\ (old.checked /\ ~old.finished /\ (old.waiting \/ old.status = 0)) =>
                 /\ new.cancelled /\ ~new.checked /\ ~new.started
                 /\ ~new.waiting /\ new.progress = 0
            /\ (inTransfer /\ old.status > 0) =>
                 /\ new.status = old.status /\ new.started = old.started
                 /\ new.cancelled
            /\ (inTransfer /\ old.status <= 0) => new.errored
            /\ (new.errored /\ ~old.errored) => (inTransfer /\ old.status <= 0)]_vars

\* C31 witness: one cancellation froze a transfer that had made progress
\* and marked one that had made none as errored.
C31_Witness ==
  /\ realization = "store" /\ lastOp = "cancelCheckedFiles"
  /\ \E f, g \in FileIds :
       /\ files[f].cancelled /\ files[f].started /\ files[f].status > 0
       /\ ~files[f].errored /\ f \in signalled
       /\ files[g].cancelled /\ files[g].errored /\ ~files[g].started
       /\ ~files[g].checked /\ files[g].status = 0 /\ g \in running

\* The calls of getState that have come to their end.
EndedCalls ==
  {c \in PositionsOf("call", "getState") :
     \/ \E d \in PositionsOf("call", "getState") : d > c
     \/ pc \in {"routed", "threw"}}

StartChecks == <<"initSJCloudHome", "dxToolkitOnPath", "dxLoggedIn", "dxCheckProjectAccess">>

\* The events of the call that begins at position c.
EventsOf(c) ==
  LET later == {d \in PositionsOf("call", "getState") : d > c}
      last == IF later = {} THEN Len(trace)
              ELSE (CHOOSE d \in later : \A e \in later : d <= e) - 1
  IN SubSeq(trace, c + 1, last)

\* The route the order of the checks gives to a call with these events.
RouteFor(evs) ==
  LET failedAt == {k \in DOMAIN evs : evs[k].e = "ret" /\ evs[k].n = -1}
  IN IF evs = <<>> THEN "UNKNOWN"
     ELSE IF failedAt = {} THEN "UPLOAD"
     ELSE LET op == evs[CHOOSE k \in failedAt : TRUE].op
          IN IF op = "dxToolkitOnPath" THEN "NEED_DOWNLOAD"
             ELSE IF op = "dxLoggedIn" THEN "NEED_LOGIN" ELSE "UNKNOWN"

\* C32: every call of getState that has ended called its callback once,
\* with the route of the first check that failed (UPLOAD if none did); the
\* checks of a call start in their order and none starts after a failure.
C32_OneRoutePerCall ==
  realization = "state" =>
    /\ Len(routed) = Cardinality(EndedCalls)
    /\ \A c \in EndedCalls :
         LET k == Cardinality({d \in EndedCalls : d <= c})
             evs == EventsOf(c)
         IN /\ k <= Len(routed) => routed[k] = RouteFor(evs)
            /\ \A x \in DOMAIN evs :
                 evs[x].e = "call" =>
                   /\ evs[x].op = StartChecks[(x + 1) \div 2]
                   /\ \A y \in 1..(x - 1) : ~(evs[y].e = "ret" /\ evs[y].n = -1)

\* C33: the callback of runCommand is called once when the command has
\* finished and not before. A process error is handed on as (err, null);
\* without one, text on stderr is handed on as the error if raiseOnStderr
\* is set; without either, a stdout that is 'False' between white space is
\* an error; anything else is (null, stdout). Without raiseOnStderr the
\* error is never the text of stderr.
C33_CommandCallbackOnce ==
  realization = "command" =>
    /\ Len(cmdCallbacks) = (IF pc = "finished" THEN 1 ELSE 0)
    /\ pc = "finished" =>
         LET cb == cmdCallbacks[1]
             failed == command.err # "null"
             raised == command.raiseOnStderr /\ command.stderr # ""
             false == \E k \in DOMAIN command.stdout :
                        /\ command.stdout[k] = "False"
                        /\ \A j \in DOMAIN command.stdout \ {k} :
                             command.stdout[j] \in Whitespace
         IN /\ failed => (cb.err = command.err /\ cb.isNull)
            /\ (~failed /\ raised) => (cb.err = command.stderr /\ cb.isNull)
            /\ (~failed /\ ~raised /\ false) => (cb.err = "STDOUT was False" /\ cb.isNull)
            /\ (~failed /\ ~raised /\ ~false) =>
                 (cb.err = "null" /\ ~cb.isNull /\ cb.out = command.stdout)
            /\ ~command.raiseOnStderr => cb.err \in {"null", "ExecError", "STDOUT was False"}

\* C33 witness: a command that wrote to stderr and was run without
\* raiseOnStderr gave its stdout to the callback.
C33_Witness ==
  /\ realization = "command" /\ pc = "finished"
  /\ ~command.raiseOnStderr /\ command.stderr # "" /\ command.stdout # <<>>
  /\ Len(cmdCallbacks) = 1
  /\ cmdCallbacks[1].err = "null" /\ cmdCallbacks[1].out = command.stdout

\* The argument a function cannot do without: the token for login and
\* loggedIn, the identifier for describe and listFiles.
RequiredEmpty(r) ==
  \/ r.fn \in {"login", "loggedIn"} /\ r.token = ""
  \/ r.fn \in {"describe", "listFiles"} /\ r.id = ""

\* C34: a call of login, loggedIn, describe, listFiles or listProjects
\* that has ended called its callback once: with an error and without a
\* request when the required argument is empty, otherwise with the result
\* or the error of the one request.
C34_ClientCallbackOnce ==
  realization = "client" =>
    /\ pc # "done" => clientCallbacks = <<>>
    /\ pc = "done" =>
         /\ Len(clientCallbacks) = 1
         /\ IF RequiredEmpty(request)
              THEN /\ clientCallbacks[1].err # "null"
                   /\ Calls("request") = {}
              ELSE /\ Cardinality(Calls("request")) = 1
                   /\ \/ Returned("request", 0) # {} /\ clientCallbacks[1].err = "null"
                      \/ Returned("request", -1) # {} /\ clientCallbacks[1].err = "remote"

ProgressOrder == <<"30%", "60%", "90%", "100%">>

Succeeded == \E k \in DOMAIN installCallbacks : installCallbacks[k].err = "null"

\* What the claim asks of every state of an installation.
InstallSafe ==
  /\ installProgress = SubSeq(ProgressOrder, 1, Len(installProgress))
  /\ Succeeded => toolkit.hash = "expected"
  /\ (\E k \in DOMAIN installProgress : installProgress[k] = "100%") => Succeeded
  /\ toolkit.hash # "expected" => Calls("execSync") \cup Calls("untarTo") = {}

\* C35: installDxToolkit reports success only for a download with the
\* expected hash; a download with another hash is never executed or
\* extracted and leads to a call of the callback with an error; the
\* progress goes 30%, 60%, 90%, 100%, the last on success only.
C35_InstallVerified ==
  /\ [](realization = "install" => InstallSafe)
  /\ (realization = "install" /\ Returned("downloadFile", 0) # {}
        /\ toolkit.hash # "expected")
       ~> (\E k \in DOMAIN installCallbacks : installCallbacks[k].err # "null")

\* How often the command of the k-th open-url event was executed.
TimesExecuted(k) ==
  Cardinality({x \in DOMAIN executed : executed[x].cmd = handleURIMac(k)})

\* C36: a URI command is executed in an open main window only; the
\* command of an open-url event is executed at most once, and once every
\* createWindow call has been answered after 'ready', it has been executed
\* once, whether the event came before 'ready' or after it, with or without
\* a window.
C36_OpenUrlExecutedOnce ==
  realization = "main" =>
    /\ \A x \in DOMAIN executed : executed[x].window = "open"
    /\ \A k \in DOMAIN openUrls :
         openUrls[k] # 0 =>
           /\ TimesExecuted(k) <= 1
           /\ (appReady /\ pendingWindows = <<>>) => TimesExecuted(k) = 1

\* C37: the prompts start the tour at most once; at most one polling
\* interval is ever live, it has made at most ten tries without tools and
\* has not started the tour, so that its next firing clears it or counts
\* one more try; once it was given up the prompt has started no tour; the
\* timeout that ends the tour exists only after the start by the prompt;
\* it ends the tour when it fires, and once cleared it does not fire; an
\* interval that was cleared is not set again.
C37_PromptStartsOnce ==
  /\ [](realization \in {"tour", "tour0"} =>
          /\ autoStarts <= 1
          /\ waitingForTools \in {0, 1}
          /\ waitingForTools = 1 =>
               (userPrompted /\ numTries <= 10 /\ autoStarts = 0)
          /\ numTries > 10 => (waitingForTools = 0 /\ autoStarts = 0)
          /\ promptTimeout # "unset" => autoStarts = 1)
  /\ [][realization = "tour" =>
          /\ promptTimeout = "cleared" => promptTimeout' = "cleared"
          /\ promptTimeout' = "fired" => tourState' = "ended" \/ promptTimeout = "fired"
          /\ (userPrompted /\ waitingForTools = 0) => waitingForTools' = 0
          /\ (waitingForTools = 1 /\ waitingForTools' = 0) =>
               (numTries' = 11 \/ (toolsLoaded /\ autoStarts' = 1
                                   /\ tourState' = "running"
                                   /\ promptTimeout' = "armed"))]_vars

\* C37 witness: the polling was given up after eleven tries, the tools
\* came later, and the tour is still off.
C37_Witness ==
  /\ realization = "tour"
  /\ numTries = 11 /\ waitingForTools = 0 /\ userPrompted
  /\ toolsLoaded /\ autoStarts = 0 /\ tourState = "off"

====
